---- MODULE Spec2Model ----
(***************************************************************************)
(* Model of the timetable scheduling engine:                               *)
(*   - FitnessCalculator   (src/unnamed/part_000)                          *)
(*   - GeneticAlgorithm    (src/backend/src/services/genericAlgorithm.js)  *)
(*   - ConstraintChecker   (src/backend/src/routes/facultyRoutes.js)       *)
(*   - Schedule.detectConflicts (src/backend/src/models/Schedule.js)       *)
(*                                                                         *)
(* Identifiers (_id, courseCode, roomNumber, names) are strings.  Wall     *)
(* clock times "HH:MM" are modelled by the hour as an integer: the code    *)
(* compares the zero-padded strings lexicographically, which is the        *)
(* numeric order.  Template-string keys `${a}-${b}-${c}` are modelled as   *)
(* tuples <<a, b, c>>.  JavaScript arrays are sequences.                   *)
(***************************************************************************)
EXTENDS Integers, Sequences, FiniteSets, TLC

VARIABLES
    courses, faculty, rooms, timeSlots,   \* this.courses .. this.timeSlots
    config,                               \* the constructor's argument
    pc,                                   \* position in optimize / in the audit
    generation,                           \* loop variable of optimize
    heap,                                 \* gene objects, addressed by reference
    population,                           \* this.population
    newPopulation,                        \* evolve's local newPopulation
    bestChromosome,                       \* this.bestChromosome (<<>> is null)
    generationHistory,                    \* this.generationHistory
    progressLog,                          \* records delivered to the sink
    sinkInFlight,                         \* records the sink is still handling
    store,                                \* the schedule document as last saved (<<>>: none)
    cancelRequested,                      \* a cancellation was asked for
    firstResult,                          \* what an earlier run returned (<<>>: none)
    evalGenes,                            \* chromosome.genes given to calculate
    evaluation,                           \* what calculate returned (<<>>: none)
    entries,                              \* schedule.entries
    conflicts,                            \* what detectConflicts returned
    violations                            \* what validateSchedule returned

snapshotVars == <<courses, faculty, rooms, timeSlots>>
runVars == <<sinkInFlight, store, cancelRequested, firstResult>>
gaVars == <<config, generation, heap, population, newPopulation, bestChromosome, generationHistory, progressLog, runVars>>
auditVars == <<evalGenes, evaluation, entries, conflicts, violations>>
vars == <<snapshotVars, gaVars, auditVars, pc>>

----------------------------------------------------------------------------
(* Generic helpers *)

RECURSIVE SumSeq(_)
SumSeq(s) == IF s = <<>> THEN 0 ELSE Head(s) + SumSeq(Tail(s))

RECURSIVE SumFn(_, _)
SumFn(f, S) ==
    IF S = {} THEN 0
    ELSE LET x == CHOOSE y \in S : TRUE IN f[x] + SumFn(f, S \ {x})

Range(s) == { s[i] : i \in DOMAIN s }

Max(a, b) == IF a >= b THEN a ELSE b

\* Math.ceil(a / b) for integers a >= 0, b > 0
Ceil(a, b) == (a + b - 1) \div b

\* JavaScript `v || d` on numbers: 0 (and an absent value, modelled as 0) is falsy
OrDefault(v, d) == IF v = 0 THEN d ELSE v

\* Array.prototype.sort((a, b) => a - b) on slot numbers (insertion sort)
RECURSIVE InsertSorted(_, _)
InsertSorted(x, s) ==
    IF s = <<>> THEN <<x>>
    ELSE IF x < Head(s) THEN <<x>> \o s
    ELSE <<Head(s)>> \o InsertSorted(x, Tail(s))

RECURSIVE SortAscending(_)
SortAscending(s) == IF s = <<>> THEN <<>> ELSE InsertSorted(Head(s), SortAscending(Tail(s)))

\* String.prototype.toLowerCase on the day names of the TimeSlot enum and on
\* the lab types a course names
ToLowerCase(day) ==
    CASE day = "Monday" -> "monday"
      [] day = "Tuesday" -> "tuesday"
      [] day = "Computer" -> "computer"
      [] day = "General" -> "general"
      [] OTHER -> day

----------------------------------------------------------------------------
(* FitnessCalculator: the weights table (constructor defaults) *)

WeightFacultyDoubleBooking == 1000
WeightRoomDoubleBooking == 1000
WeightSectionConflict == 1000
WeightFacultyUnavailable == 900
WeightLabContinuity == 800
WeightRoomCapacity == 800
WeightWorkloadExceeded == 100
WeightWorkloadUnderUtilized == 80
WeightStudentGaps == 50
WeightFacultyGaps == 40
WeightWorkloadBalance == 60
WeightConsecutiveHours == 50
BaselineFitness == 1000
DefaultMaxHoursPerWeek == 18
DefaultMinHoursPerWeek == 12
MaxConsecutive == 3

\* a count that is raised once for a key, however often the key comes again
DuplicatedKeyCount(keys) ==
    Cardinality({ keys[i] : i \in { i \in DOMAIN keys : \E j \in 1..(i - 1) : keys[j] = keys[i] } })

\* Number of genes whose key was already in the Map when they were visited
DuplicateCount(keys) ==
    Cardinality({ i \in DOMAIN keys : \E j \in 1..(i - 1) : keys[j] = keys[i] })

checkFacultyConflicts(genes) ==
    DuplicateCount([i \in DOMAIN genes |->
        genes[i].facultyId \o "-" \o genes[i].timeSlot.day \o "-" \o ToString(genes[i].timeSlot.slotNumber)])

checkRoomConflicts(genes) ==
    DuplicateCount([i \in DOMAIN genes |->
        genes[i].roomId \o "-" \o genes[i].timeSlot.day \o "-" \o ToString(genes[i].timeSlot.slotNumber)])

checkSectionConflicts(genes) ==
    DuplicateCount([i \in DOMAIN genes |->
        genes[i].section \o "-" \o genes[i].timeSlot.day \o "-" \o ToString(genes[i].timeSlot.slotNumber)])

\* new Map(list.map(x => [x._id.toString(), x])).get(id): the members with that id
Lookup(list, id) == { list[i] : i \in { j \in DOMAIN list : list[j].id = id } }

GeneUnavailable(gene, facultyList) ==
    \E f \in Lookup(facultyList, gene.facultyId) :
        LET day == ToLowerCase(gene.timeSlot.day)
        IN  IF day \notin DOMAIN f.availability \/ f.availability[day] = <<>>
            THEN TRUE
            ELSE ~ \E k \in DOMAIN f.availability[day] :
                     /\ gene.timeSlot.startTime >= f.availability[day][k].startTime
                     /\ gene.timeSlot.endTime <= f.availability[day][k].endTime

checkFacultyAvailability(genes, facultyList) ==
    Cardinality({ i \in DOMAIN genes : GeneUnavailable(genes[i], facultyList) })

\* The loop body adds 0 for every lab session needing more than one slot
checkLabContinuity(genes) ==
    LET labSessions == SelectSeq(genes, LAMBDA g : g.sessionType = "lab")
    IN  SumSeq([i \in DOMAIN labSessions |-> IF labSessions[i].consecutiveSlots > 1 THEN 0 ELSE 0])

GeneOverCapacity(gene, courseList, roomList) ==
    \E room \in Lookup(roomList, gene.roomId) : \E course \in Lookup(courseList, gene.courseId) :
        \E k \in DOMAIN course.sections :
            /\ course.sections[k].sectionName = gene.section
            /\ \A j \in 1..(k - 1) : course.sections[j].sectionName # gene.section
            /\ room.capacity < course.sections[k].strength

checkRoomCapacity(genes, courseList, roomList) ==
    Cardinality({ i \in DOMAIN genes : GeneOverCapacity(genes[i], courseList, roomList) })

\* workload Map: facultyId -> sum of gene.duration
AssignedHours(genes, id) ==
    SumSeq([i \in DOMAIN genes |-> IF genes[i].facultyId = id THEN genes[i].duration ELSE 0])

checkWorkloadConstraints(genes, facultyList) ==
    LET max(f) == OrDefault(f.workload.maxHoursPerWeek, DefaultMaxHoursPerWeek)
        min(f) == OrDefault(f.workload.minHoursPerWeek, DefaultMinHoursPerWeek)
        hours(f) == AssignedHours(genes, f.id)
    IN  [ exceeded |-> Cardinality({ i \in DOMAIN facultyList : hours(facultyList[i]) > max(facultyList[i]) }),
          underUtilized |-> Cardinality({ i \in DOMAIN facultyList :
                                /\ ~ (hours(facultyList[i]) > max(facultyList[i]))
                                /\ hours(facultyList[i]) < min(facultyList[i]) }) ]

\* sum of slots[i] - slots[i-1] - 1 over a sorted list
RECURSIVE GapSum(_)
GapSum(slots) ==
    IF Len(slots) < 2 THEN 0
    ELSE (slots[2] - slots[1] - 1) + GapSum(Tail(slots))

\* the slot numbers pushed under one key of a grouping Map, in gene order
SlotsOfGroup(genes, keyOfGene, key) ==
    LET members == SelectSeq([i \in DOMAIN genes |-> i], LAMBDA i : keyOfGene[i] = key)
    IN  [k \in DOMAIN members |-> genes[members[k]].timeSlot.slotNumber]

SectionDayKey(g) == <<g.section, g.timeSlot.day>>
FacultyDayKey(g) == <<g.facultyId, g.timeSlot.day>>
SectionDayKeys(genes) == [i \in DOMAIN genes |-> SectionDayKey(genes[i])]
FacultyDayKeys(genes) == [i \in DOMAIN genes |-> FacultyDayKey(genes[i])]

calculateStudentGaps(genes) ==
    LET keys == { SectionDayKey(genes[i]) : i \in DOMAIN genes }
    IN  SumFn([k \in keys |-> GapSum(SortAscending(SlotsOfGroup(genes, SectionDayKeys(genes), k)))], keys)

calculateFacultyGaps(genes) ==
    LET keys == { FacultyDayKey(genes[i]) : i \in DOMAIN genes }
    IN  SumFn([k \in keys |-> GapSum(SortAscending(SlotsOfGroup(genes, FacultyDayKeys(genes), k)))], keys)

\* Math.floor(Math.sqrt(variance)), variance = sum((w - mean)^2) / n over the
\* Map's values: the largest k with k*k*n*n*n <= sum((n*w - total)^2)
evaluateWorkloadBalance(genes) ==
    LET ids == { genes[i].facultyId : i \in DOMAIN genes }
        n == Cardinality(ids)
        total == SumFn([id \in ids |-> AssignedHours(genes, id)], ids)
        q == SumFn([id \in ids |-> (n * AssignedHours(genes, id) - total) * (n * AssignedHours(genes, id) - total)], ids)
    IN  IF n = 0 THEN 0
        ELSE CHOOSE k \in 0..(q + 1) : k * k * n * n * n <= q /\ (k + 1) * (k + 1) * n * n * n > q

\* the walk over one sorted slot list: state is <<consecutive, count>>
RECURSIVE ConsecutiveWalk(_, _, _)
ConsecutiveWalk(slots, consecutive, count) ==
    IF Len(slots) < 2 THEN count
    ELSE IF slots[2] - slots[1] = 1
         THEN ConsecutiveWalk(Tail(slots), consecutive + 1,
                              IF consecutive + 1 > MaxConsecutive THEN count + 1 ELSE count)
         ELSE ConsecutiveWalk(Tail(slots), 1, count)

checkConsecutiveHours(genes) ==
    LET keys == { FacultyDayKey(genes[i]) : i \in DOMAIN genes }
    IN  SumFn([k \in keys |-> ConsecutiveWalk(SortAscending(SlotsOfGroup(genes, FacultyDayKeys(genes), k)), 1, 0)], keys)

Detail(type, count, penalty) == [type |-> type, count |-> count, penalty |-> penalty]
PushIf(cond, detail) == IF cond THEN <<detail>> ELSE <<>>

\* FitnessCalculator.calculate.  details.hardConstraints / softConstraints are
\* the pushed records; `count` of workload_imbalance is exceeded + underUtilized
\* and of workload_balance the imbalance.
calculate(genes, courseList, facultyList, roomList) ==
    LET facultyConflicts == checkFacultyConflicts(genes)
        roomConflicts == checkRoomConflicts(genes)
        sectionConflicts == checkSectionConflicts(genes)
        unavailableSlots == checkFacultyAvailability(genes, facultyList)
        labContinuity == checkLabContinuity(genes)
        capacityIssues == checkRoomCapacity(genes, courseList, roomList)
        workloadViolations == checkWorkloadConstraints(genes, facultyList)
        studentGaps == calculateStudentGaps(genes)
        facultyGaps == calculateFacultyGaps(genes)
        workloadBalance == evaluateWorkloadBalance(genes)
        consecutiveHours == checkConsecutiveHours(genes)
        workloadPenalty == workloadViolations.exceeded * WeightWorkloadExceeded
                           + workloadViolations.underUtilized * WeightWorkloadUnderUtilized
        fitness == BaselineFitness
                   - facultyConflicts * WeightFacultyDoubleBooking
                   - roomConflicts * WeightRoomDoubleBooking
                   - sectionConflicts * WeightSectionConflict
                   - unavailableSlots * WeightFacultyUnavailable
                   - labContinuity * WeightLabContinuity
                   - capacityIssues * WeightRoomCapacity
                   - workloadPenalty
                   - studentGaps * WeightStudentGaps
                   - facultyGaps * WeightFacultyGaps
                   - workloadBalance * WeightWorkloadBalance
                   - consecutiveHours * WeightConsecutiveHours
    IN  [ fitness |-> Max(0, fitness),
          hardViolations |-> facultyConflicts + roomConflicts + sectionConflicts
                             + unavailableSlots + labContinuity + capacityIssues,
          softViolations |-> workloadViolations.exceeded + workloadViolations.underUtilized
                             + studentGaps + facultyGaps + workloadBalance + consecutiveHours,
          hardConstraints |->
               PushIf(facultyConflicts > 0, Detail("faculty_double_booking", facultyConflicts, facultyConflicts * WeightFacultyDoubleBooking))
            \o PushIf(roomConflicts > 0, Detail("room_double_booking", roomConflicts, roomConflicts * WeightRoomDoubleBooking))
            \o PushIf(sectionConflicts > 0, Detail("section_conflict", sectionConflicts, sectionConflicts * WeightSectionConflict))
            \o PushIf(unavailableSlots > 0, Detail("faculty_unavailable", unavailableSlots, unavailableSlots * WeightFacultyUnavailable))
            \o PushIf(labContinuity > 0, Detail("lab_continuity_broken", labContinuity, labContinuity * WeightLabContinuity))
            \o PushIf(capacityIssues > 0, Detail("room_capacity_exceeded", capacityIssues, capacityIssues * WeightRoomCapacity)),
          softConstraints |->
               PushIf(workloadViolations.exceeded + workloadViolations.underUtilized > 0,
                      Detail("workload_imbalance", workloadViolations.exceeded + workloadViolations.underUtilized, workloadPenalty))
            \o PushIf(studentGaps > 0, Detail("student_gaps", studentGaps, studentGaps * WeightStudentGaps))
            \o PushIf(facultyGaps > 0, Detail("faculty_gaps", facultyGaps, facultyGaps * WeightFacultyGaps))
            \o PushIf(workloadBalance > 0, Detail("workload_balance", workloadBalance, workloadBalance * WeightWorkloadBalance))
            \o PushIf(consecutiveHours > 0, Detail("excessive_consecutive_hours", consecutiveHours, consecutiveHours * WeightConsecutiveHours)) ]

----------------------------------------------------------------------------
(* Schedule entries and Schedule.detectConflicts *)

\* generateSchedule: result.schedule.genes.map(gene => ({ ... }))
ToEntry(gene) ==
    [ day |-> gene.timeSlot.day,
      timeSlot |-> [slotNumber |-> gene.timeSlot.slotNumber, startTime |-> gene.timeSlot.startTime, endTime |-> gene.timeSlot.endTime],
      course |-> gene.courseId, courseCode |-> gene.courseCode,
      sessionType |-> gene.sessionType, section |-> gene.section,
      faculty |-> gene.facultyId, facultyName |-> gene.facultyName,
      room |-> gene.roomId, roomNumber |-> gene.roomNumber,
      duration |-> gene.duration, consecutiveSlots |-> gene.consecutiveSlots ]

ToEntries(genes) == [i \in DOMAIN genes |-> ToEntry(genes[i])]

TimeKey(entry) == <<entry.day, entry.timeSlot.slotNumber>>

Conflict(type, entity, entry) == [type |-> type, severity |-> "critical", entity |-> entity, timeSlot |-> TimeKey(entry)]

\* the conflicts pushed while visiting entry i
ConflictsOfEntry(es, i) ==
       PushIf(\E j \in 1..(i - 1) : es[j].faculty = es[i].faculty /\ TimeKey(es[j]) = TimeKey(es[i]),
              Conflict("faculty_double_booking", es[i].facultyName, es[i]))
    \o PushIf(\E j \in 1..(i - 1) : es[j].room = es[i].room /\ TimeKey(es[j]) = TimeKey(es[i]),
              Conflict("room_double_booking", es[i].roomNumber, es[i]))
    \o PushIf(\E j \in 1..(i - 1) : es[j].section = es[i].section /\ TimeKey(es[j]) = TimeKey(es[i]),
              Conflict("student_section_conflict", es[i].section, es[i]))

RECURSIVE ConflictsUpTo(_, _)
ConflictsUpTo(es, n) == IF n = 0 THEN <<>> ELSE ConflictsUpTo(es, n - 1) \o ConflictsOfEntry(es, n)

detectConflicts(es) == ConflictsUpTo(es, Len(es))

----------------------------------------------------------------------------
(* Constraint.getDefaultConstraints and ConstraintChecker *)

\* The strings of the catalog and of the checker's includes() calls, as character sequences
StrMax == <<"M", "a", "x">>
StrMin == <<"M", "i", "n">>
StrDoubleBooking == <<"D", "o", "u", "b", "l", "e", " ", "B", "o", "o", "k", "i", "n", "g">>
StrCapacity == <<"C", "a", "p", "a", "c", "i", "t", "y">>
StrAvailability == <<"A", "v", "a", "i", "l", "a", "b", "i", "l", "i", "t", "y">>
StrConflict == <<"C", "o", "n", "f", "l", "i", "c", "t">>
StrNoStudentSection == <<"N", "o", " ", "S", "t", "u", "d", "e", "n", "t", " ", "S", "e", "c", "t", "i", "o", "n">>
StrGap == <<"G", "a", "p">>

Constraint(name, type, category) == [name |-> name, type |-> type, category |-> category, isActive |-> TRUE]

getDefaultConstraints ==
    <<
       Constraint(<<"N", "o", " ", "F", "a", "c", "u", "l", "t", "y", " ", "D", "o", "u", "b", "l", "e", " ", "B", "o", "o", "k", "i", "n", "g">>, "hard", "faculty_workload"),
       Constraint(<<"N", "o", " ", "R", "o", "o", "m", " ", "D", "o", "u", "b", "l", "e", " ", "B", "o", "o", "k", "i", "n", "g">>, "hard", "room_allocation"),
       Constraint(<<"N", "o", " ", "S", "t", "u", "d", "e", "n", "t", " ", "S", "e", "c", "t", "i", "o", "n", " ", "C", "o", "n", "f", "l", "i", "c", "t">>, "hard", "student_section"),
       Constraint(<<"L", "a", "b", " ", "S", "e", "s", "s", "i", "o", "n", " ", "C", "o", "n", "t", "i", "n", "u", "i", "t", "y">>, "hard", "lab_continuity"),
       Constraint(<<"R", "o", "o", "m", " ", "C", "a", "p", "a", "c", "i", "t", "y", " ", "C", "h", "e", "c", "k">>, "hard", "room_allocation"),
       Constraint(<<"F", "a", "c", "u", "l", "t", "y", " ", "Q", "u", "a", "l", "i", "f", "i", "c", "a", "t", "i", "o", "n", " ", "M", "a", "t", "c", "h">>, "hard", "faculty_workload"),
       Constraint(<<"F", "a", "c", "u", "l", "t", "y", " ", "A", "v", "a", "i", "l", "a", "b", "i", "l", "i", "t", "y">>, "hard", "time_slot"),
       Constraint(<<"E", "l", "e", "c", "t", "i", "v", "e", " ", "G", "r", "o", "u", "p", " ", "N", "o", " ", "O", "v", "e", "r", "l", "a", "p">>, "hard", "elective_grouping"),
       Constraint(<<"F", "a", "c", "u", "l", "t", "y", " ", "M", "a", "x", " ", "H", "o", "u", "r", "s", " ", "P", "e", "r", " ", "W", "e", "e", "k">>, "soft", "faculty_workload"),
       Constraint(<<"F", "a", "c", "u", "l", "t", "y", " ", "M", "i", "n", " ", "H", "o", "u", "r", "s", " ", "P", "e", "r", " ", "W", "e", "e", "k">>, "soft", "faculty_workload"),
       Constraint(<<"W", "o", "r", "k", "l", "o", "a", "d", " ", "B", "a", "l", "a", "n", "c", "e">>, "soft", "faculty_workload"),
       Constraint(<<"M", "i", "n", "i", "m", "i", "z", "e", " ", "S", "t", "u", "d", "e", "n", "t", " ", "G", "a", "p", "s">>, "soft", "student_section"),
       Constraint(<<"F", "a", "c", "u", "l", "t", "y", " ", "P", "r", "e", "f", "e", "r", "r", "e", "d", " ", "T", "i", "m", "e", " ", "S", "l", "o", "t", "s">>, "soft", "preference"),
       Constraint(<<"A", "v", "o", "i", "d", " ", "F", "a", "c", "u", "l", "t", "y", " ", "C", "o", "n", "s", "e", "c", "u", "t", "i", "v", "e", " ", "H", "o", "u", "r", "s">>, "soft", "faculty_workload"),
       Constraint(<<"B", "a", "l", "a", "n", "c", "e", "d", " ", "D", "a", "i", "l", "y", " ", "D", "i", "s", "t", "r", "i", "b", "u", "t", "i", "o", "n">>, "soft", "time_slot"),
       Constraint(<<"C", "o", "u", "r", "s", "e", " ", "P", "r", "e", "f", "e", "r", "r", "e", "d", " ", "D", "a", "y", "s">>, "soft", "preference"),
       Constraint(<<"R", "o", "o", "m", " ", "U", "t", "i", "l", "i", "z", "a", "t", "i", "o", "n", " ", "O", "p", "t", "i", "m", "i", "z", "a", "t", "i", "o", "n">>, "soft", "room_allocation"),
       Constraint(<<"L", "a", "b", " ", "T", "y", "p", "e", " ", "M", "a", "t", "c", "h">>, "soft", "room_allocation")
    >>

\* String.prototype.includes
includes(name, pattern) ==
    \E i \in 0..(Len(name) - Len(pattern)) : SubSeq(name, i + 1, i + Len(pattern)) = pattern

PlaceholderSectionSize == 60
MaxTolerableGap == 2

EntryHours(es, id) ==
    SumSeq([i \in DOMAIN es |-> IF es[i].faculty = id THEN OrDefault(es[i].duration, 1) ELSE 0])

checkFacultyWorkloadConstraint(constraint, es, facultyList) ==
    LET assigned(f) == EntryHours(es, f.id)
        max(f) == OrDefault(f.workload.maxHoursPerWeek, DefaultMaxHoursPerWeek)
        min(f) == OrDefault(f.workload.minHoursPerWeek, DefaultMinHoursPerWeek)
        overMax == { i \in DOMAIN facultyList : includes(constraint.name, StrMax) /\ assigned(facultyList[i]) > max(facultyList[i]) }
        underMin == { i \in DOMAIN facultyList : includes(constraint.name, StrMin) /\ assigned(facultyList[i]) < min(facultyList[i]) }
    IN  Cardinality(overMax) + Cardinality(underMin)

checkRoomAllocationConstraint(constraint, es, roomList) ==
    LET doubleBooked ==
            IF includes(constraint.name, StrDoubleBooking)
            THEN DuplicateCount([i \in DOMAIN es |-> <<es[i].room, es[i].day, es[i].timeSlot.slotNumber>>])
            ELSE 0
        tooSmall ==
            IF includes(constraint.name, StrCapacity)
            THEN Cardinality({ i \in DOMAIN es : \E room \in Lookup(roomList, es[i].room) : room.capacity < PlaceholderSectionSize })
            ELSE 0
    IN  doubleBooked + tooSmall

\* the Availability branch is empty
checkTimeSlotConstraint(constraint, es) == 0

\* number of adjacent pairs of a sorted slot list more than MaxTolerableGap apart
RECURSIVE LongGaps(_)
LongGaps(slots) ==
    IF Len(slots) < 2 THEN 0
    ELSE (IF slots[2] - slots[1] - 1 > MaxTolerableGap THEN 1 ELSE 0) + LongGaps(Tail(slots))

EntrySlotsOfGroup(es, key) ==
    LET members == SelectSeq(es, LAMBDA e : <<e.section, e.day>> = key)
    IN  [i \in DOMAIN members |-> members[i].timeSlot.slotNumber]

checkStudentSectionConstraint(constraint, es) ==
    LET overlapping ==
            IF includes(constraint.name, StrConflict) \/ includes(constraint.name, StrNoStudentSection)
            THEN DuplicateCount([i \in DOMAIN es |-> <<es[i].section, es[i].day, es[i].timeSlot.slotNumber>>])
            ELSE 0
        keys == { <<es[i].section, es[i].day>> : i \in DOMAIN es }
        gaps ==
            IF includes(constraint.name, StrGap)
            THEN SumFn([k \in keys |-> LongGaps(SortAscending(EntrySlotsOfGroup(es, k)))], keys)
            ELSE 0
    IN  overlapping + gaps

\* isConsecutive is the constant true: nothing is ever pushed
checkLabContinuityConstraint(constraint, es) ==
    LET labSessions == SelectSeq(es, LAMBDA e : e.sessionType = "lab")
        isConsecutive == TRUE
    IN  Cardinality({ i \in DOMAIN labSessions : labSessions[i].consecutiveSlots > 1 /\ ~ isConsecutive })

\* the entries checkElectiveGroupingConstraint puts into electiveGroups
ElectiveEntries(es, courseList) ==
    { i \in DOMAIN es : \E c \in Lookup(courseList, es[i].course) : c.isElective /\ c.electiveGroup # "" }

ElectiveBucketOf(es, courseList, i) ==
    <<(CHOOSE c \in Lookup(courseList, es[i].course) : TRUE).electiveGroup, TimeKey(es[i])>>

\* the violation records: one per (group, time key) holding several course codes
ElectiveViolations(es, courseList) ==
    LET grouped == ElectiveEntries(es, courseList)
        buckets == { ElectiveBucketOf(es, courseList, i) : i \in grouped }
        codes(b) == LET members == SelectSeq([i \in DOMAIN es |-> <<i, es[i]>>],
                                             LAMBDA m : m[1] \in grouped /\ ElectiveBucketOf(es, courseList, m[1]) = b)
                    IN  [k \in DOMAIN members |-> members[k][2].courseCode]
    IN  { [electiveGroup |-> b[1], timeSlot |-> b[2], overlappingCourses |-> codes(b)] :
              b \in { x \in buckets : Len(codes(x)) > 1 } }

checkElectiveGroupingConstraint(constraint, es, courseList) ==
    Cardinality(ElectiveViolations(es, courseList))

\* checkConstraint: the number of violation records of the category's checker
checkConstraint(constraint, es, courseList, facultyList, roomList) ==
    CASE constraint.category = "faculty_workload" -> checkFacultyWorkloadConstraint(constraint, es, facultyList)
      [] constraint.category = "room_allocation" -> checkRoomAllocationConstraint(constraint, es, roomList)
      [] constraint.category = "time_slot" -> checkTimeSlotConstraint(constraint, es)
      [] constraint.category = "student_section" -> checkStudentSectionConstraint(constraint, es)
      [] constraint.category = "lab_continuity" -> checkLabContinuityConstraint(constraint, es)
      [] constraint.category = "elective_grouping" -> checkElectiveGroupingConstraint(constraint, es, courseList)
      [] OTHER -> 0

\* validateSchedule: one record per active constraint whose checker reported
\* violated (count > 0), in catalog order, split by constraint.type
ViolationsOfType(type, constraints, es, courseList, facultyList, roomList) ==
    LET hit == SelectSeq(constraints, LAMBDA c :
                   c.isActive /\ c.type = type /\ checkConstraint(c, es, courseList, facultyList, roomList) > 0)
    IN  [i \in DOMAIN hit |-> [ constraint |-> hit[i].name, category |-> hit[i].category,
                                count |-> OrDefault(checkConstraint(hit[i], es, courseList, facultyList, roomList), 1) ]]

validateSchedule(es, courseList, facultyList, roomList, constraints) ==
    [ hard |-> ViolationsOfType("hard", constraints, es, courseList, facultyList, roomList),
      soft |-> ViolationsOfType("soft", constraints, es, courseList, facultyList, roomList) ]

----------------------------------------------------------------------------
(* Snapshot entities (the documents handed to initialize / calculate) *)

Section(name, strength) == [sectionName |-> name, strength |-> strength]

\* specificLabType "" is an absent roomRequirements.lab.specificLabType;
\* electiveGroup "" is a null electiveGroup
Course(id, theoryHoursPerWeek, theoryDuration, labHoursPerWeek, labDuration, sections) ==
    [ id |-> id, courseCode |-> id,
      theoryHours |-> [hoursPerWeek |-> theoryHoursPerWeek, sessionDuration |-> theoryDuration],
      labHours |-> [hoursPerWeek |-> labHoursPerWeek, sessionDuration |-> labDuration],
      sections |-> sections, specificLabType |-> "",
      isElective |-> FALSE, electiveGroup |-> "" ]

Window(startTime, endTime) == [startTime |-> startTime, endTime |-> endTime]

WholeWeek == [monday |-> <<Window(8, 18)>>, tuesday |-> <<Window(8, 18)>>]

\* workload bounds 0 stand for absent ones
Faculty(id, subjects, isActive, minHoursPerWeek) ==
    [ id |-> id, name |-> id, subjects |-> subjects, isActive |-> isActive,
      availability |-> WholeWeek,
      workload |-> [maxHoursPerWeek |-> 0, minHoursPerWeek |-> minHoursPerWeek] ]

Room(id, type, capacity, isActive) ==
    [id |-> id, roomNumber |-> id, type |-> type, labType |-> "general", capacity |-> capacity, isActive |-> isActive]

\* slot n of a day runs from hour 8 + n to hour 9 + n
TimeSlot(day, slotNumber, isActive) ==
    [day |-> day, slotNumber |-> slotNumber, startTime |-> 8 + slotNumber, endTime |-> 9 + slotNumber, isActive |-> isActive]

Snapshot(cs, fs, rs, ts) == [courses |-> cs, faculty |-> fs, rooms |-> rs, timeSlots |-> ts]

----------------------------------------------------------------------------
(* The audit of one chromosome: calculate, then the conversion to schedule  *)
(* entries, detectConflicts and validateSchedule on the same genes          *)

MaxEvalGenes == 3
EvalSlots == 2

EvalSnapshot ==
    Snapshot(<< Course("CS101", 2, 1, 0, 1, <<Section("A", 30)>>),
                Course("CS201", 0, 1, 2, 2, <<Section("A", 30)>>) >>,
             << Faculty("F1", {"CS101", "CS201"}, TRUE, 1),
                Faculty("F2", {"CS101", "CS201"}, TRUE, 1) >>,
             << Room("R1", "classroom", 40, TRUE), Room("R2", "lab", 40, TRUE) >>,
             [n \in 1..EvalSlots |-> TimeSlot("Monday", n, TRUE)])

\* a gene as createRandomGene builds it, for arbitrary references
Gene(courseId, section, sessionType, slot, facultyId, roomId, duration, consecutiveSlots) ==
    [ courseId |-> courseId, courseCode |-> courseId, section |-> section, sessionType |-> sessionType,
      timeSlot |-> [day |-> slot.day, slotNumber |-> slot.slotNumber, startTime |-> slot.startTime, endTime |-> slot.endTime],
      facultyId |-> facultyId, facultyName |-> facultyId, roomId |-> roomId, roomNumber |-> roomId,
      duration |-> duration, consecutiveSlots |-> consecutiveSlots ]

\* the genes an audited chromosome is drawn from: theory genes of CS101 and
\* two-slot lab genes of CS201, with known and unknown ("FX", "RX", "CX")
\* references
EvalGeneUniverse ==
    LET staffing == { <<"F1", "R1">>, <<"F2", "R2">>, <<"FX", "RX">> }
        slots == Range(EvalSnapshot.timeSlots)
    IN  { Gene("CS101", "A", "theory", s, p[1], p[2], 1, 1) : s \in slots, p \in staffing }
        \cup { Gene("CS201", "A", "lab", s, p[1], p[2], 2, 2) : s \in slots, p \in staffing }
        \cup { Gene("CX", "A", "theory", s, "F1", "R1", 1, 1) : s \in slots }

SeqsUpTo(S, n) == UNION { [1..k -> S] : k \in 0..n }

InitIdle ==
    /\ config = [populationSize |-> 0, maxGenerations |-> 0, mutationRate |-> 0, crossoverRate |-> 0, elitismCount |-> 0, tournamentSize |-> 0]
    /\ generation = 0
    /\ heap = <<>>
    /\ population = <<>>
    /\ newPopulation = <<>>
    /\ bestChromosome = <<>>
    /\ generationHistory = <<>>
    /\ progressLog = <<>>
    /\ sinkInFlight = <<>>
    /\ store = <<>>
    /\ cancelRequested = FALSE
    /\ firstResult = <<>>

InitAudit ==
    /\ courses = EvalSnapshot.courses
    /\ faculty = EvalSnapshot.faculty
    /\ rooms = EvalSnapshot.rooms
    /\ timeSlots = EvalSnapshot.timeSlots
    /\ InitIdle
    /\ pc = "input"
    /\ evalGenes \in SeqsUpTo(EvalGeneUniverse, MaxEvalGenes)
    /\ evaluation = <<>>
    /\ entries = <<>>
    /\ conflicts = <<>>
    /\ violations = [hard |-> <<>>, soft |-> <<>>]

\* evaluateChromosome's call of fitnessCalculator.calculate
Calculate ==
    /\ pc = "input"
    /\ evaluation' = <<calculate(evalGenes, courses, faculty, rooms)>>
    /\ pc' = "scored"
    /\ UNCHANGED <<snapshotVars, gaVars, evalGenes, entries, conflicts, violations>>

\* generateSchedule: schedule.entries = entries; schedule.detectConflicts()
DetectConflicts ==
    /\ pc = "scored"
    /\ entries' = ToEntries(evalGenes)
    /\ conflicts' = detectConflicts(ToEntries(evalGenes))
    /\ pc' = "detected"
    /\ UNCHANGED <<snapshotVars, gaVars, evalGenes, evaluation, violations>>

\* validateSchedule on the saved entries with the default catalog
ValidateSchedule ==
    /\ pc = "detected"
    /\ violations' = validateSchedule(entries, courses, faculty, rooms, getDefaultConstraints)
    /\ pc' = "audited"
    /\ UNCHANGED <<snapshotVars, gaVars, evalGenes, evaluation, entries, conflicts>>

NextAudit == Calculate \/ DetectConflicts \/ ValidateSchedule

SpecAudit == InitAudit /\ [][NextAudit]_vars

----------------------------------------------------------------------------
(* Claims about the audit of one chromosome (SpecAudit) *)

Scored == evaluation # <<>>

PenaltySum(details) == SumSeq([i \in DOMAIN details |-> details[i].penalty])

\* C2: for every chromosome, calculate returns fitness = max(0, 1000 - P), P the
\* sum of the penalty fields of the detail breakdown it returns.
C2_FitnessIsBaselineMinusPenalties ==
    Scored => evaluation[1].fitness
              = Max(0, BaselineFitness - (PenaltySum(evaluation[1].hardConstraints) + PenaltySum(evaluation[1].softConstraints)))

KnownIds(list) == { list[i].id : i \in DOMAIN list }

\* references of a chromosome to a faculty, room or course absent from the snapshot
MissingReferences(genes) ==
    Cardinality({ i \in DOMAIN genes : genes[i].facultyId \notin KnownIds(faculty) })
    + Cardinality({ i \in DOMAIN genes : genes[i].roomId \notin KnownIds(rooms) })
    + Cardinality({ i \in DOMAIN genes : genes[i].courseId \notin KnownIds(courses) })

\* C9: a gene referencing a faculty, room or course absent from the snapshot is
\* evaluated without a failure and each missing reference is counted as one
\* hard violation in the returned hard-violation count.
C9_MissingReferencesAreHardViolations ==
    Scored => evaluation[1].hardViolations >= MissingReferences(evalGenes)

\* slots slot+1 .. slot+k-1 of lab gene i that hold no gene of the same course,
\* section, faculty, room and day
MissingNeighbours(genes, i) ==
    Cardinality({ d \in 1..(genes[i].consecutiveSlots - 1) :
        ~ \E j \in DOMAIN genes :
            /\ genes[j].courseId = genes[i].courseId /\ genes[j].section = genes[i].section
            /\ genes[j].facultyId = genes[i].facultyId /\ genes[j].roomId = genes[i].roomId
            /\ genes[j].timeSlot.day = genes[i].timeSlot.day
            /\ genes[j].timeSlot.slotNumber = genes[i].timeSlot.slotNumber + d })

ExpectedLabContinuity(genes) ==
    SumSeq([i \in DOMAIN genes |-> IF genes[i].sessionType = "lab" /\ genes[i].consecutiveSlots > 1 THEN MissingNeighbours(genes, i) ELSE 0])

DetailCount(details, type) ==
    SumSeq([i \in DOMAIN details |-> IF details[i].type = type THEN details[i].count ELSE 0])

\* C10: the evaluator counts one lab-continuity violation for each slot among
\* slot+1 .. slot+k-1 of a lab gene (k > 1) that has no gene of the same course,
\* section, faculty, room and day.
C10_LabContinuityCountsMissingNeighbours ==
    Scored => DetailCount(evaluation[1].hardConstraints, "lab_continuity_broken") = ExpectedLabContinuity(evalGenes)

ConflictCount(type) == Cardinality({ i \in DOMAIN conflicts : conflicts[i].type = type })

\* the hard constraint of the default catalog that states a conflict type
ConstraintOfConflict(type) ==
    CASE type = "faculty_double_booking" -> getDefaultConstraints[1].name
      [] type = "room_double_booking" -> getDefaultConstraints[2].name
      [] type = "student_section_conflict" -> getDefaultConstraints[3].name

\* C4: every conflict emitted by detectConflicts corresponds to a hard violation
\* of the same kind reported by validateSchedule (default catalog) on the same
\* entries.
C4_FastPassWithinValidator ==
    pc = "audited" =>
        \A type \in {"faculty_double_booking", "room_double_booking", "student_section_conflict"} :
            ConflictCount(type) > 0 =>
                \E i \in DOMAIN violations.hard :
                    /\ violations.hard[i].constraint = ConstraintOfConflict(type)
                    /\ violations.hard[i].count >= ConflictCount(type)

----------------------------------------------------------------------------
(* GeneticAlgorithm: configuration and randomness                          *)
(*                                                                         *)
(* Math.random() is a draw from RandomDraws, in hundredths, wherever it is *)
(* compared with a rate or a threshold; Math.floor(Math.random() * n) is   *)
(* RandomIndex(u, n) for a draw u from RandomChoices.  Rates are in        *)
(* hundredths as well (mutationRate 0.1 is 10).                            *)

DefaultPopulationSize == 100
DefaultMaxGenerations == 1000
DefaultMutationRate == 10
DefaultCrossoverRate == 80
DefaultElitismCount == 5
DefaultTournamentSize == 5
ProgressEvery == 10
PerfectFitness == 950
TimeMutationBelow == 33
FacultyMutationBelow == 66

\* the constructor: this.x = config.x || default
populationSize == OrDefault(config.populationSize, DefaultPopulationSize)
maxGenerations == OrDefault(config.maxGenerations, DefaultMaxGenerations)
mutationRate == OrDefault(config.mutationRate, DefaultMutationRate)
crossoverRate == OrDefault(config.crossoverRate, DefaultCrossoverRate)
elitismCount == OrDefault(config.elitismCount, DefaultElitismCount)
tournamentSize == OrDefault(config.tournamentSize, DefaultTournamentSize)

RandomDraws == {0, 33, 66, 99}

RandomIndex(u, n) == u % n

RECURSIVE Flatten(_)
Flatten(ss) == IF ss = <<>> THEN <<>> ELSE Head(ss) \o Flatten(Tail(ss))

----------------------------------------------------------------------------
(* Random construction *)

Session(type, duration, consecutiveSlots) == [type |-> type, duration |-> duration, consecutiveSlots |-> consecutiveSlots]

\* the session list with the counts rounded down
getRequiredSessionsRoundedDown(course) ==
       (IF course.theoryHours.hoursPerWeek > 0
        THEN [i \in 1..(course.theoryHours.hoursPerWeek \div course.theoryHours.sessionDuration) |->
                 Session("theory", course.theoryHours.sessionDuration, 1)]
        ELSE <<>>)
    \o (IF course.labHours.hoursPerWeek > 0
        THEN [i \in 1..(course.labHours.hoursPerWeek \div course.labHours.sessionDuration) |->
                 Session("lab", course.labHours.sessionDuration, Ceil(course.labHours.sessionDuration, 1))]
        ELSE <<>>)

getRequiredSessions(course) ==
       (IF course.theoryHours.hoursPerWeek > 0
        THEN [i \in 1..Ceil(course.theoryHours.hoursPerWeek, course.theoryHours.sessionDuration) |->
                 Session("theory", course.theoryHours.sessionDuration, 1)]
        ELSE <<>>)
    \o (IF course.labHours.hoursPerWeek > 0
        THEN [i \in 1..Ceil(course.labHours.hoursPerWeek, course.labHours.sessionDuration) |->
                 Session("lab", course.labHours.sessionDuration, Ceil(course.labHours.sessionDuration, 1))]
        ELSE <<>>)

isRoomSuitable(room, course, sessionType, section) ==
    /\ room.isActive
    /\ ~ (room.capacity < section.strength)
    /\ IF sessionType = "lab"
       THEN /\ room.type = "lab"
            /\ (course.specificLabType # "" =>
                   ~ (room.labType # ToLowerCase(course.specificLabType) /\ ToLowerCase(course.specificLabType) # "general"))
       ELSE ~ (room.type # "classroom" /\ room.type # "seminar_hall")

EligibleFaculty(course) == SelectSeq(faculty, LAMBDA f : course.id \in f.subjects /\ f.isActive)

EligibleRooms(course, sessionType, section) == SelectSeq(rooms, LAMBDA r : isRoomSuitable(r, course, sessionType, section))

\* createRandomGene: <<>> is null, <<gene>> a gene.  Reading a field of
\* this.timeSlots[NaN] throws inside the try and yields null.
createRandomGene(course, section, session, ut, uf, ur) ==
    LET eligibleFaculty == EligibleFaculty(course)
        eligibleRooms == EligibleRooms(course, session.type, section)
    IN  IF timeSlots = <<>> \/ eligibleFaculty = <<>> \/ eligibleRooms = <<>> THEN <<>>
        ELSE << Gene(course.id, section.sectionName, session.type,
                     timeSlots[RandomIndex(ut, Len(timeSlots)) + 1],
                     eligibleFaculty[RandomIndex(uf, Len(eligibleFaculty)) + 1].id,
                     eligibleRooms[RandomIndex(ur, Len(eligibleRooms)) + 1].id,
                     session.duration, session.consecutiveSlots) >>

\* the (course, section, session) triples in the order createRandomChromosome
\* visits them
RequirementsOfCourse(course) ==
    LET sessions == getRequiredSessions(course)
    IN  Flatten([s \in DOMAIN course.sections |->
                    [k \in DOMAIN sessions |-> [course |-> course, section |-> course.sections[s], session |-> sessions[k]]]])

Requirements == Flatten([c \in DOMAIN courses |-> RequirementsOfCourse(courses[c])])

RandomChoices == 0..(Max(Len(timeSlots), Max(Len(faculty), Max(Len(rooms), Len(Requirements)))) - 1)

GeneOutcomes(req) ==
    { createRandomGene(req.course, req.section, req.session, ut, uf, ur) :
        ut \in RandomChoices, uf \in RandomChoices, ur \in RandomChoices }

\* the gene lists createRandomChromosome can return
RECURSIVE ChromosomeOutcomes(_)
ChromosomeOutcomes(reqs) ==
    IF reqs = <<>> THEN { <<>> }
    ELSE { g \o rest : g \in GeneOutcomes(Head(reqs)), rest \in ChromosomeOutcomes(Tail(reqs)) }

NoDetails == [hardConstraints |-> <<>>, softConstraints |-> <<>>]

\* a chromosome object; genes are references into the heap
Chromosome(genes, fitness, hardViolations, softViolations, details) ==
    [genes |-> genes, fitness |-> fitness, hardViolations |-> hardViolations, softViolations |-> softViolations, details |-> details]

----------------------------------------------------------------------------
(* Gene objects.  heap[r] is the gene object with reference r; two          *)
(* chromosomes holding the same reference share the object.                 *)

Deref(h, chromosome) == [i \in DOMAIN chromosome.genes |-> h[chromosome.genes[i]]]

FreshRefs(h, n) == [i \in 1..n |-> Len(h) + i]

\* JSON.parse(JSON.stringify(chromosome)): new gene objects with equal fields
DeepCopy(h, chromosome) ==
    [ heap |-> h \o Deref(h, chromosome),
      chromosome |-> [chromosome EXCEPT !.genes = FreshRefs(h, Len(chromosome.genes))] ]

RECURSIVE DeepCopyAll(_, _)
DeepCopyAll(h, chromosomes) ==
    IF chromosomes = <<>> THEN [heap |-> h, chromosomes |-> <<>>]
    ELSE LET first == DeepCopy(h, Head(chromosomes))
             rest == DeepCopyAll(first.heap, Tail(chromosomes))
         IN  [heap |-> rest.heap, chromosomes |-> <<first.chromosome>> \o rest.chromosomes]

\* the first occurrences of a list of references, in order
RECURSIVE Dedupe(_)
Dedupe(s) ==
    IF s = <<>> THEN <<>>
    ELSE LET front == Dedupe(SubSeq(s, 1, Len(s) - 1))
         IN  IF s[Len(s)] \in Range(front) THEN front ELSE Append(front, s[Len(s)])

\* dropping the unreachable gene objects and renumbering the rest by first use
LiveRefs(chromosomes) == Dedupe(Flatten([i \in DOMAIN chromosomes |-> chromosomes[i].genes]))

Collect(h, chromosomes) ==
    LET live == LiveRefs(chromosomes)
        rename(r) == CHOOSE k \in DOMAIN live : live[k] = r
    IN  [ heap |-> [k \in DOMAIN live |-> h[live[k]]],
          chromosomes |-> [i \in DOMAIN chromosomes |->
                              [chromosomes[i] EXCEPT !.genes = [j \in DOMAIN chromosomes[i].genes |-> rename(chromosomes[i].genes[j])]]] ]

----------------------------------------------------------------------------
(* Evaluation and best tracking *)

evaluateChromosome(h, chromosome) ==
    LET e == calculate(Deref(h, chromosome), courses, faculty, rooms)
    IN  [chromosome EXCEPT !.fitness = e.fitness, !.hardViolations = e.hardViolations,
                           !.softViolations = e.softViolations,
                           !.details = [hardConstraints |-> e.hardConstraints, softConstraints |-> e.softConstraints]]

evaluatePopulation(h, chromosomes) == [i \in DOMAIN chromosomes |-> evaluateChromosome(h, chromosomes[i])]

\* population.reduce((best, current) => current.fitness > best.fitness ? current : best)
RECURSIVE ReduceBest(_, _)
ReduceBest(best, rest) ==
    IF rest = <<>> THEN best
    ELSE ReduceBest(IF Head(rest).fitness > best.fitness THEN Head(rest) ELSE best, Tail(rest))

getBestChromosome(chromosomes) == ReduceBest(Head(chromosomes), Tail(chromosomes))

\* a deep copy kept outside the population: the genes by value
Retained(h, chromosome) == [chromosome EXCEPT !.genes = Deref(h, chromosome)]

\* the same rule with >= in place of >
TrackBestOrEqual(best, h, currentBest) ==
    IF best = <<>> \/ currentBest.fitness >= best[1].fitness THEN <<Retained(h, currentBest)>> ELSE best

\* if (!this.bestChromosome || currentBest.fitness > this.bestChromosome.fitness)
TrackBest(best, h, currentBest) ==
    IF best = <<>> \/ currentBest.fitness > best[1].fitness THEN <<Retained(h, currentBest)>> ELSE best

RECURSIVE MaxOf(_)
MaxOf(s) == IF Len(s) = 1 THEN s[1] ELSE Max(s[1], MaxOf(Tail(s)))

\* avgFitness is sum / count, kept as the pair
getGenerationStats(chromosomes) ==
    LET fitnesses == [i \in DOMAIN chromosomes |-> chromosomes[i].fitness]
    IN  [bestFitness |-> MaxOf(fitnesses), avgFitness |-> [sum |-> SumSeq(fitnesses), count |-> Len(fitnesses)]]

----------------------------------------------------------------------------
(* Evolution *)

\* [...population].sort((a, b) => b.fitness - a.fitness): stable, descending
Rank(chromosomes, i) ==
    1 + Cardinality({ j \in DOMAIN chromosomes :
            \/ chromosomes[j].fitness > chromosomes[i].fitness
            \/ (chromosomes[j].fitness = chromosomes[i].fitness /\ j < i) })

SortByFitness(chromosomes) ==
    [k \in DOMAIN chromosomes |-> chromosomes[CHOOSE i \in DOMAIN chromosomes : Rank(chromosomes, i) = k]]

\* tournamentSelection over the sampled indices: the index of the winner (0: null)
RECURSIVE TournamentFold(_, _)
TournamentFold(best, sample) ==
    IF sample = <<>> THEN best
    ELSE TournamentFold(IF best = 0 \/ population[Head(sample)].fitness > population[best].fitness
                        THEN Head(sample) ELSE best,
                        Tail(sample))

tournamentSelection(sample) == TournamentFold(0, sample)

TournamentWinners == { tournamentSelection(s) : s \in [1..tournamentSize -> DOMAIN population] }

\* a crossover that drops the gene at the crossover point
crossoverDroppingOne(parent1, parent2, u) ==
    LET crossoverPoint == IF parent1.genes = <<>> THEN 0 ELSE RandomIndex(u, Len(parent1.genes))
    IN  Chromosome(SubSeq(parent1.genes, 1, crossoverPoint) \o SubSeq(parent2.genes, crossoverPoint + 2, Len(parent2.genes)),
                   0, 0, 0, NoDetails)

\* a crossover that starts from a copy of parent1's record and so keeps its
\* cached scores
crossoverKeepingScores(parent1, parent2, u) ==
    LET crossoverPoint == IF parent1.genes = <<>> THEN 0 ELSE RandomIndex(u, Len(parent1.genes))
    IN  [parent1 EXCEPT !.genes = SubSeq(parent1.genes, 1, crossoverPoint) \o SubSeq(parent2.genes, crossoverPoint + 1, Len(parent2.genes))]

\* the offspring shares the gene objects of its parents
crossover(parent1, parent2, u) ==
    LET crossoverPoint == IF parent1.genes = <<>> THEN 0 ELSE RandomIndex(u, Len(parent1.genes))
    IN  Chromosome(SubSeq(parent1.genes, 1, crossoverPoint) \o SubSeq(parent2.genes, crossoverPoint + 1, Len(parent2.genes)),
                   0, 0, 0, NoDetails)

\* a mutation that moves the gene to a new time slot and takes one slot off
\* its consecutive-slot count
mutateGeneShortened(gene, mutationType, u) ==
    LET newTimeSlot == timeSlots[RandomIndex(u, Len(timeSlots)) + 1]
    IN  [gene EXCEPT !.timeSlot = [day |-> newTimeSlot.day, slotNumber |-> newTimeSlot.slotNumber,
                                   startTime |-> newTimeSlot.startTime, endTime |-> newTimeSlot.endTime],
                     !.consecutiveSlots = @ - 1]

\* the gene after one mutation of it
mutateGene(gene, mutationType, u) ==
    LET course == SelectSeq(courses, LAMBDA c : c.id = gene.courseId)
        section == IF course = <<>> THEN <<>> ELSE SelectSeq(course[1].sections, LAMBDA s : s.sectionName = gene.section)
    IN  IF mutationType < TimeMutationBelow
        THEN LET newTimeSlot == timeSlots[RandomIndex(u, Len(timeSlots)) + 1]
             IN  [gene EXCEPT !.timeSlot = [day |-> newTimeSlot.day, slotNumber |-> newTimeSlot.slotNumber,
                                            startTime |-> newTimeSlot.startTime, endTime |-> newTimeSlot.endTime]]
        ELSE IF mutationType < FacultyMutationBelow
        THEN IF course # <<>> /\ EligibleFaculty(course[1]) # <<>>
             THEN LET newFaculty == EligibleFaculty(course[1])[RandomIndex(u, Len(EligibleFaculty(course[1]))) + 1]
                  IN  [gene EXCEPT !.facultyId = newFaculty.id, !.facultyName = newFaculty.name]
             ELSE gene
        ELSE IF course # <<>> /\ section # <<>> /\ EligibleRooms(course[1], gene.sessionType, section[1]) # <<>>
             THEN LET eligibleRooms == EligibleRooms(course[1], gene.sessionType, section[1])
                      newRoom == eligibleRooms[RandomIndex(u, Len(eligibleRooms)) + 1]
                  IN  [gene EXCEPT !.roomId = newRoom.id, !.roomNumber = newRoom.roomNumber]
             ELSE gene

\* mutate(chromosome): the heap after the assignment to one gene object
mutate(h, chromosome, ug, mutationType, u) ==
    IF chromosome.genes = <<>> THEN h
    ELSE LET ref == chromosome.genes[RandomIndex(ug, Len(chromosome.genes)) + 1]
         IN  [h EXCEPT ![ref] = mutateGene(h[ref], mutationType, u)]

----------------------------------------------------------------------------
(* The optimisation run: initialize, then optimize's loop                   *)

PopulationSize == 2
MaxGenerations == 2

\* one teacher, one room, and a grid whose third slot is switched off
OneTeacherSnapshot ==
    Snapshot(<< Course("CS101", 2, 1, 0, 1, <<Section("A", 30)>>) >>,
             << Faculty("F1", {"CS101"}, TRUE, 1) >>,
             << Room("R1", "classroom", 40, TRUE) >>,
             << TimeSlot("Monday", 1, TRUE), TimeSlot("Monday", 2, TRUE), TimeSlot("Monday", 3, FALSE) >>)

\* a theory course and a two-slot lab course, two teachers for the theory,
\* two laboratories for the lab
TwoCourseSnapshot ==
    Snapshot(<< Course("CS101", 1, 1, 0, 1, <<Section("A", 30)>>),
                Course("CS201", 0, 1, 2, 2, <<Section("A", 30)>>) >>,
             << Faculty("F1", {"CS101", "CS201"}, TRUE, 1), Faculty("F2", {"CS101"}, TRUE, 1) >>,
             << Room("R1", "classroom", 40, TRUE), Room("R2", "lab", 40, TRUE), Room("R3", "lab", 40, TRUE) >>,
             << TimeSlot("Monday", 1, TRUE), TimeSlot("Monday", 2, TRUE) >>)

\* CS102 can only be taught by F2, who is inactive
UnstaffedSnapshot ==
    Snapshot(<< Course("CS101", 1, 1, 0, 1, <<Section("A", 30)>>),
                Course("CS102", 1, 1, 0, 1, <<Section("A", 30)>>) >>,
             << Faculty("F1", {"CS101"}, TRUE, 1), Faculty("F2", {"CS102"}, FALSE, 1) >>,
             << Room("R1", "classroom", 40, TRUE) >>,
             << TimeSlot("Monday", 1, TRUE), TimeSlot("Monday", 2, TRUE) >>)

\* one teacher, one room, two slots
TwoSlotSnapshot ==
    Snapshot(<< Course("CS101", 2, 1, 0, 1, <<Section("A", 30)>>) >>,
             << Faculty("F1", {"CS101"}, TRUE, 1) >>,
             << Room("R1", "classroom", 40, TRUE) >>,
             << TimeSlot("Monday", 1, TRUE), TimeSlot("Monday", 2, TRUE) >>)

\* one course, one session, one teacher, one room, one slot: construction has
\* a single outcome
SingleSlotSnapshot ==
    Snapshot(<< Course("CS101", 1, 1, 0, 1, <<Section("A", 30)>>) >>,
             << Faculty("F1", {"CS101"}, TRUE, 1) >>,
             << Room("R1", "classroom", 40, TRUE) >>,
             << TimeSlot("Monday", 1, TRUE) >>)

\* no course at all
EmptyCoursesSnapshot ==
    Snapshot(<< >>,
             << Faculty("F1", {"CS101"}, TRUE, 1) >>,
             << Room("R1", "classroom", 40, TRUE) >>,
             << TimeSlot("Monday", 1, TRUE), TimeSlot("Monday", 2, TRUE) >>)

Run(data, size, elitism) == [data |-> data, populationSize |-> size, elitismCount |-> elitism]

\* the runs.  elitismCount 1 keeps one elite; -1 passes the constructor's
\* || 5 and the elitism loop then copies nothing; 0 is an absent elitismCount
\* (generateSchedule never passes one).  populationSize 0 and -1 are the
\* non-positive sizes.
GARuns ==
    { Run(OneTeacherSnapshot, PopulationSize, 1), Run(TwoCourseSnapshot, PopulationSize, 1),
      Run(UnstaffedSnapshot, PopulationSize, 1), Run(UnstaffedSnapshot, PopulationSize, -1),
      Run(TwoSlotSnapshot, PopulationSize, -1), Run(TwoSlotSnapshot, PopulationSize, 0),
      Run(EmptyCoursesSnapshot, PopulationSize, 1),
      Run(SingleSlotSnapshot, 0, 1), Run(SingleSlotSnapshot, -1, 1) }

\* a new GeneticAlgorithm(config) after initialize(data), optimize not yet called
Initialized(data, cfg) ==
    /\ courses = data.courses
    /\ faculty = data.faculty
    /\ rooms = data.rooms
    /\ timeSlots = data.timeSlots
    /\ config = cfg
    /\ generation = 0
    /\ heap = <<>>
    /\ population = <<>>
    /\ newPopulation = <<>>
    /\ bestChromosome = <<>>
    /\ generationHistory = <<>>
    /\ progressLog = <<>>
    /\ sinkInFlight = <<>>
    /\ store = <<>>
    /\ cancelRequested = FALSE
    /\ firstResult = <<>>
    /\ pc = "init"
    /\ evalGenes = <<>>
    /\ evaluation = <<>>
    /\ entries = <<>>
    /\ conflicts = <<>>
    /\ violations = [hard |-> <<>>, soft |-> <<>>]

InitGA ==
    \E r \in GARuns :
        Initialized(r.data, [populationSize |-> r.populationSize, maxGenerations |-> MaxGenerations,
                             mutationRate |-> 0, crossoverRate |-> 0, elitismCount |-> r.elitismCount, tournamentSize |-> 2])

\* the test of optimize's for loop
LoopTest(g) == IF g < maxGenerations THEN "evaluate" ELSE "finish"

\* generateInitialPopulation: one iteration of its loop
CreateRandomChromosome ==
    /\ pc = "init"
    /\ Len(population) < populationSize
    /\ \E genes \in ChromosomeOutcomes(Requirements) :
          /\ heap' = heap \o genes
          /\ population' = Append(population, Chromosome(FreshRefs(heap, Len(genes)), 0, 0, 0, NoDetails))
    /\ pc' = IF Len(population) + 1 < populationSize THEN "init" ELSE LoopTest(0)
    /\ UNCHANGED <<snapshotVars, config, generation, newPopulation, bestChromosome, generationHistory, progressLog, runVars, auditVars>>

\* generateInitialPopulation with a populationSize that is not positive: the
\* loop body never runs
SkipInitialPopulation ==
    /\ pc = "init"
    /\ ~ (0 < populationSize)
    /\ pc' = LoopTest(0)
    /\ UNCHANGED <<snapshotVars, gaVars, auditVars>>

\* optimize, from evaluatePopulation to the push on generationHistory; reduce
\* on an empty population throws
EvaluateGeneration ==
    /\ pc = "evaluate"
    /\ IF population = <<>>
       THEN /\ pc' = "threw"
            /\ UNCHANGED <<population, bestChromosome, generationHistory>>
       ELSE LET evaluated == evaluatePopulation(heap, population)
                currentBest == getBestChromosome(evaluated)
                best == TrackBest(bestChromosome, heap, currentBest)
                stats == getGenerationStats(evaluated)
            IN  /\ population' = evaluated
                /\ bestChromosome' = best
                /\ generationHistory' = Append(generationHistory,
                       [generation |-> generation, bestFitness |-> stats.bestFitness, avgFitness |-> stats.avgFitness,
                        hardViolations |-> best[1].hardViolations, softViolations |-> best[1].softViolations])
                /\ pc' = "notify"
    /\ UNCHANGED <<snapshotVars, config, generation, heap, newPopulation, progressLog, runVars, auditVars>>

\* a call of the progress callback that is not awaited
NoAwait(called) == "check"

\* where optimize continues after the call of the progress callback
Await(called) == IF called THEN "awaiting" ELSE "check"

\* the record optimize hands to the progress callback; stats are those just
\* pushed on generationHistory, progress is the fraction generation / maxGenerations
ProgressRecord ==
    LET stats == generationHistory[Len(generationHistory)]
    IN  [generation |-> generation, maxGenerations |-> maxGenerations,
         progress |-> [numerator |-> generation * 100, denominator |-> maxGenerations],
         bestFitness |-> stats.bestFitness, avgFitness |-> stats.avgFitness,
         hardViolations |-> bestChromosome[1].hardViolations]

\* the call of the progress callback, every tenth generation
NotifyProgress ==
    /\ pc = "notify"
    /\ IF generation % ProgressEvery = 0
       THEN /\ progressLog' = Append(progressLog, ProgressRecord)
            /\ sinkInFlight' = Append(sinkInFlight, ProgressRecord)
            /\ pc' = Await(TRUE)
       ELSE /\ pc' = Await(FALSE)
            /\ UNCHANGED <<progressLog, sinkInFlight>>
    /\ UNCHANGED <<snapshotVars, config, generation, heap, population, newPopulation, bestChromosome, generationHistory,
                   store, cancelRequested, firstResult, auditVars>>

\* generateSchedule's progressCallback runs to its end: the metrics are set
\* and schedule.save() resolves; an optimize that awaits it resumes
SinkAcknowledge ==
    /\ sinkInFlight # <<>>
    /\ store' = IF store = <<>>
                THEN <<[generationNumber |-> Head(sinkInFlight).generation, fitnessScore |-> Head(sinkInFlight).bestFitness]>>
                ELSE <<[store[1] EXCEPT !.generationNumber = Head(sinkInFlight).generation,
                                        !.fitnessScore = Head(sinkInFlight).bestFitness]>>
    /\ sinkInFlight' = Tail(sinkInFlight)
    /\ pc' = IF pc = "awaiting" THEN "check" ELSE pc
    /\ UNCHANGED <<snapshotVars, config, generation, heap, population, newPopulation, bestChromosome, generationHistory,
                   progressLog, cancelRequested, firstResult, auditVars>>

\* the early stop on a perfect best chromosome
TerminationCheck ==
    /\ pc = "check"
    /\ pc' = IF bestChromosome[1].hardViolations = 0 /\ bestChromosome[1].fitness > PerfectFitness THEN "finish" ELSE "evolve"
    /\ UNCHANGED <<snapshotVars, gaVars, auditVars>>

\* evolve: the sort and the copies of the elite; copying a chromosome that
\* is not there throws
EvolveElitism ==
    /\ pc = "evolve"
    /\ IF elitismCount > Len(population)
       THEN /\ pc' = "threw"
            /\ UNCHANGED <<heap, newPopulation>>
       ELSE LET copies == DeepCopyAll(heap, SubSeq(SortByFitness(population), 1, elitismCount))
            IN  /\ heap' = copies.heap
                /\ newPopulation' = copies.chromosomes
                /\ pc' = "offspring"
    /\ UNCHANGED <<snapshotVars, config, generation, population, bestChromosome, generationHistory, progressLog, runVars, auditVars>>

\* crossover with probability crossoverRate, else a deep copy of parent1
Breed(h, p1, p2, rc, uc) ==
    IF rc < crossoverRate
    THEN [heap |-> h, chromosome |-> crossover(population[p1], population[p2], uc)]
    ELSE DeepCopy(h, population[p1])

BreedOutcomes ==
    { Breed(heap, p1, p2, rc, uc) : p1 \in TournamentWinners, p2 \in TournamentWinners, rc \in RandomDraws, uc \in RandomChoices }

\* the heaps after the mutation with probability mutationRate
MutateOutcomes(bred) ==
    { IF rm < mutationRate THEN mutate(bred.heap, bred.chromosome, ug, mutationType, u) ELSE bred.heap :
        rm \in RandomDraws, ug \in RandomChoices, mutationType \in RandomDraws, u \in RandomChoices }

\* evolve: one iteration of the loop that fills the new population
EvolveOffspring ==
    /\ pc = "offspring"
    /\ Len(newPopulation) < populationSize
    /\ \E bred \in BreedOutcomes :
       \E mutated \in MutateOutcomes(bred) :
          /\ heap' = mutated
          /\ newPopulation' = Append(newPopulation, bred.chromosome)
    /\ UNCHANGED <<snapshotVars, config, generation, population, bestChromosome, generationHistory, progressLog, runVars, auditVars, pc>>

\* evolve: this.population = newPopulation, then the loop's generation++
EvolveReplace ==
    /\ pc = "offspring"
    /\ ~ (Len(newPopulation) < populationSize)
    /\ LET kept == Collect(heap, newPopulation)
       IN  /\ heap' = kept.heap
           /\ population' = kept.chromosomes
    /\ newPopulation' = <<>>
    /\ generation' = generation + 1
    /\ pc' = LoopTest(generation + 1)
    /\ UNCHANGED <<snapshotVars, config, bestChromosome, generationHistory, progressLog, runVars, auditVars>>

\* optimize after the loop: the summary reads this.bestChromosome.fitness,
\* which throws on null, and the result is returned
Return ==
    /\ pc = "finish"
    /\ pc' = IF bestChromosome = <<>> THEN "threw" ELSE "done"
    /\ UNCHANGED <<snapshotVars, gaVars, auditVars>>

\* what optimize returned
Result == [schedule |-> bestChromosome, generations |-> generationHistory]

NextRun ==
    \/ CreateRandomChromosome
    \/ EvaluateGeneration
    \/ NotifyProgress
    \/ SinkAcknowledge
    \/ TerminationCheck
    \/ EvolveElitism
    \/ EvolveOffspring
    \/ EvolveReplace
    \/ Return

NextGA == NextRun \/ SkipInitialPopulation

SpecGA == InitGA /\ [][NextGA]_vars

----------------------------------------------------------------------------
(* Properties of the optimisation run *)

\* C1: the fitness of the best-so-far chromosome never decreases over the
\* generations, and the best-so-far chromosome is replaced only by a
\* chromosome of strictly higher fitness.
C1_BestSoFarOnlyImproves ==
    [][ (bestChromosome # <<>> /\ bestChromosome' # bestChromosome)
          => (bestChromosome' # <<>> /\ bestChromosome'[1].fitness > bestChromosome[1].fitness) ]_vars

\* the best-so-far chromosome was replaced in generation 1 by a fitter one
C1_BestReplacedByFitter ==
    /\ pc = "notify"
    /\ generation = 1
    /\ bestChromosome[1].fitness > generationHistory[1].bestFitness

RefsOf(chromosomes) == Range(Flatten([i \in DOMAIN chromosomes |-> chromosomes[i].genes]))

\* C3: crossover and mutation never modify a gene object reachable from
\* another chromosome: producing (and mutating) one offspring leaves unchanged
\* the genes of its parents, of every member of the current population and of
\* every offspring already placed in the new population.
C3_OffspringStepKeepsPlacedGenes ==
    [][ (pc = "offspring" /\ pc' = "offspring")
          => \A r \in RefsOf(population) \cup RefsOf(newPopulation) : heap'[r] = heap[r] ]_vars

Matches(gene, req) ==
    /\ gene.courseId = req.course.id
    /\ gene.section = req.section.sectionName
    /\ gene.sessionType = req.session.type

\* the chromosome has one gene per requirement of reqs, in their order
ShapedLike(chromosome, reqs) ==
    /\ Len(chromosome.genes) = Len(reqs)
    /\ \A i \in DOMAIN reqs : Matches(heap[chromosome.genes[i]], reqs[i])

HasCandidates(req) ==
    /\ \E i \in DOMAIN faculty : faculty[i].isActive /\ req.course.id \in faculty[i].subjects
    /\ \E i \in DOMAIN rooms :
          /\ rooms[i].isActive
          /\ rooms[i].capacity >= req.section.strength
          /\ IF req.session.type = "lab" THEN rooms[i].type = "lab" ELSE rooms[i].type \in {"classroom", "seminar_hall"}

StaffableRequirements == SelectSeq(Requirements, HasCandidates)

\* C6 (as stated): in every generation every chromosome of the population has
\* exactly one gene per session requirement, at each position the course,
\* section and session type Random Construction put there.
C6_OneGenePerRequirement ==
    \A i \in DOMAIN population : ShapedLike(population[i], Requirements)

\* C6 (amended): in every generation every chromosome of the population has
\* exactly one gene for each session requirement that has a qualified active
\* faculty member and a suitable active room, and none for the others, in the
\* order of Random Construction; so all chromosomes have the same number of
\* genes, and one gene per requirement when every requirement has candidates.
C6_OneGenePerStaffableRequirement ==
    \A i \in DOMAIN population : ShapedLike(population[i], StaffableRequirements)

\* a bred generation on a snapshot with a requirement nobody can teach
C6_BredGenerationWithGap ==
    /\ generation >= 1
    /\ pc = "evaluate"
    /\ Len(StaffableRequirements) < Len(Requirements)
    /\ \E i \in DOMAIN population : population[i].genes # <<>>

SlotIsActive(gene) ==
    \E i \in DOMAIN timeSlots :
        /\ timeSlots[i].day = gene.timeSlot.day
        /\ timeSlots[i].slotNumber = gene.timeSlot.slotNumber
        /\ timeSlots[i].isActive

FacultyIsQualified(gene) ==
    \E f \in Lookup(faculty, gene.facultyId) : f.isActive /\ gene.courseId \in f.subjects

RoomIsSuitable(gene) ==
    \E r \in Lookup(rooms, gene.roomId), c \in Lookup(courses, gene.courseId) :
    \E s \in DOMAIN c.sections :
        /\ c.sections[s].sectionName = gene.section
        /\ r.isActive
        /\ r.capacity >= c.sections[s].strength
        /\ IF gene.sessionType = "lab" THEN r.type = "lab" ELSE r.type \in {"classroom", "seminar_hall"}

\* C7: every gene of every chromosome in the population, at every generation,
\* references an active time slot, an active faculty member qualified for the
\* gene's course, and an active room suitable for the session (type, and
\* capacity at least the section strength).
C7_GenesReferenceUsableResources ==
    \A i \in DOMAIN population : \A j \in DOMAIN population[i].genes :
        LET gene == heap[population[i].genes[j]]
        IN  SlotIsActive(gene) /\ FacultyIsQualified(gene) /\ RoomIsSuitable(gene)

Evaluated == pc \in {"notify", "awaiting", "check", "evolve"}

CountSum(details) == SumSeq([i \in DOMAIN details |-> details[i].count])

\* C8: a chromosome with missing genes (a requirement whose candidate set was
\* empty) has its hard-violation count incremented by the number of missing
\* genes when evaluated.
C8_MissingGenesAreHardViolations ==
    Evaluated => \A i \in DOMAIN population :
        population[i].hardViolations
          = CountSum(population[i].details.hardConstraints) + (Len(Requirements) - Len(population[i].genes))

----------------------------------------------------------------------------
(* Random construction over a family of course loads                        *)

MaxHoursPerWeek == 3
MaxSessionDuration == 2
MaxSections == 2

SectionNames == <<"A", "B", "C", "D">>

\* CS101 with the drawn theory and lab load and sections of 30; CS201 with one
\* theory hour for a section of 20, which fits either room
LoadSnapshot(th, td, lh, ld, n, staffed, labOpen) ==
    Snapshot(<< Course("CS101", th, td, lh, ld, [k \in 1..n |-> Section(SectionNames[k], 30)]),
                Course("CS201", 1, 1, 0, 1, <<Section("A", 20)>>) >>,
             << Faculty("F1", {"CS101", "CS201"}, staffed, 1) >>,
             << Room("R1", "classroom", 40, TRUE), Room("R2", "seminar_hall", 20, TRUE), Room("R3", "lab", 40, labOpen) >>,
             << TimeSlot("Monday", 1, TRUE) >>)

InitConstruct ==
    \E th \in 0..MaxHoursPerWeek, td \in 1..MaxSessionDuration, lh \in 0..MaxHoursPerWeek, ld \in 1..MaxSessionDuration :
    \E n \in 1..MaxSections, staffed \in BOOLEAN, labOpen \in BOOLEAN :
        Initialized(LoadSnapshot(th, td, lh, ld, n, staffed, labOpen),
                    [populationSize |-> 1, maxGenerations |-> 1,
                     mutationRate |-> 0, crossoverRate |-> 0, elitismCount |-> 1, tournamentSize |-> 1])

NextConstruct == CreateRandomChromosome

SpecConstruct == InitConstruct /\ [][NextConstruct]_vars

SessionTypesOf(course) ==
    (IF course.theoryHours.hoursPerWeek > 0 THEN {"theory"} ELSE {})
    \cup (IF course.labHours.hoursPerWeek > 0 THEN {"lab"} ELSE {})

EveryRequirementHasCandidates ==
    \A c \in DOMAIN courses : \A s \in DOMAIN courses[c].sections : \A t \in SessionTypesOf(courses[c]) :
        HasCandidates([course |-> courses[c], section |-> courses[c].sections[s], session |-> [type |-> t]])

SessionsPerSection(course) ==
    Ceil(course.theoryHours.hoursPerWeek, course.theoryHours.sessionDuration)
    + Ceil(course.labHours.hoursPerWeek, course.labHours.sessionDuration)

\* C5: when every requirement has at least one qualified active faculty member
\* and one suitable room, the number of genes of a chromosome returned by
\* createRandomChromosome is the sum over all (course, section) pairs of
\* ceil(theoryHours / theoryDuration) + ceil(labHours / labDuration).
C5_GeneCountIsSessionCount ==
    EveryRequirementHasCandidates =>
        \A i \in DOMAIN population :
            Len(population[i].genes) = SumSeq([c \in DOMAIN courses |-> Len(courses[c].sections) * SessionsPerSection(courses[c])])

\* a chromosome built for two sections of a course whose three theory hours
\* and three lab hours come in sessions of two
C5_BuiltWithRoundedUpSessions ==
    /\ EveryRequirementHasCandidates
    /\ population # <<>>
    /\ courses[1].theoryHours = [hoursPerWeek |-> 3, sessionDuration |-> 2]
    /\ courses[1].labHours = [hoursPerWeek |-> 3, sessionDuration |-> 2]
    /\ Len(courses[1].sections) = 2
    /\ Len(population[1].genes) = 9

\* the run under fair scheduling: the synchronous steps of optimize go on,
\* and a pending save of the progress sink resolves
FairSpecGA == SpecGA /\ WF_vars(NextGA)

----------------------------------------------------------------------------
(* Properties of the driver's control flow *)

PerfectBest == bestChromosome # <<>> /\ bestChromosome[1].hardViolations = 0 /\ bestChromosome[1].fitness > 950

HistoryNumbered == \A i \in DOMAIN generationHistory : generationHistory[i].generation = i - 1

\* C11: every run of optimize terminates; it stops, without evolving again, at
\* the first generation at which the best-so-far has zero hard violations and
\* fitness > 950, and otherwise once max-generations generations have been
\* processed; the returned history holds one record per processed generation,
\* numbered 0, 1, 2, ... without gaps.
C11_RunStopsAtPerfectOrExhaustion ==
    /\ <>(pc = "done")
    /\ [](pc \in {"evolve", "offspring"} => ~ PerfectBest)
    /\ [](pc = "done" => /\ HistoryNumbered
                         /\ IF PerfectBest
                            THEN Len(Result.generations) = generation + 1
                            ELSE generation = maxGenerations /\ Len(Result.generations) = maxGenerations)

----------------------------------------------------------------------------
(* A run long enough for a second progress record                           *)

ProgressGenerations == 11

\* a cancellation is asked for while optimize is suspended in the await of
\* the progress callback, the only point where other code runs
RequestCancel ==
    /\ pc = "awaiting"
    /\ ~ cancelRequested
    /\ cancelRequested' = TRUE
    /\ UNCHANGED <<snapshotVars, config, generation, heap, population, newPopulation, bestChromosome, generationHistory,
                   progressLog, sinkInFlight, store, firstResult, auditVars, pc>>

\* one session a week for a teacher who is due two hours and is free for the
\* first slot only: no chromosome is perfect
NarrowWindowSnapshot ==
    Snapshot(<< Course("CS101", 1, 1, 0, 1, <<Section("A", 30)>>) >>,
             << [Faculty("F1", {"CS101"}, TRUE, 2) EXCEPT !.availability = [monday |-> <<Window(9, 10)>>, tuesday |-> <<>>]] >>,
             << Room("R1", "classroom", 40, TRUE) >>,
             << TimeSlot("Monday", 1, TRUE), TimeSlot("Monday", 2, TRUE) >>)

\* a population of one chromosome and no elite
InitProgress ==
    Initialized(NarrowWindowSnapshot,
                [populationSize |-> 1, maxGenerations |-> ProgressGenerations,
                 mutationRate |-> 0, crossoverRate |-> 0, elitismCount |-> -1, tournamentSize |-> 1])

NextProgress == NextRun \/ RequestCancel

SpecProgress == InitProgress /\ [][NextProgress]_vars

\* C12: of any two progress records delivered to the sink during one run, the
\* later one has a strictly larger generation number and a best-fitness value
\* that is not smaller, for every configuration the constructor accepts.
C12_ProgressRecordsAscend ==
    \A i \in DOMAIN progressLog : \A j \in DOMAIN progressLog :
        i < j => /\ progressLog[j].generation > progressLog[i].generation
                 /\ progressLog[j].bestFitness >= progressLog[i].bestFitness

LastDelivered == progressLog[Len(progressLog)]

\* C13: the driver does not perform the termination check or the evolve step
\* of generation g, nor deliver a later progress record, until the sink's
\* handling of generation g's record, store write included, has completed; at
\* most one sink invocation is in flight at any time.
C13_DriverWaitsForSink ==
    /\ Len(sinkInFlight) <= 1
    /\ sinkInFlight # <<>> => pc = "awaiting"
    /\ (progressLog # <<>> /\ pc # "awaiting")
          => store = <<[generationNumber |-> LastDelivered.generation, fitnessScore |-> LastDelivered.bestFitness]>>

\* the record of generation 10 has been stored and the driver is at that
\* generation's termination check
C13_SecondRecordStored ==
    /\ pc = "check"
    /\ generation = 10
    /\ Len(progressLog) = 2
    /\ store = <<[generationNumber |-> 10, fitnessScore |-> LastDelivered.bestFitness]>>

\* C14: when cancellation is requested during a run, the driver observes the
\* cancel flag at the next generation boundary (after the progress
\* notification), stops without raising, and returns the best-so-far as of
\* that generation.
C14_CancelStopsAtBoundary ==
    cancelRequested =>
        /\ pc \in {"awaiting", "check", "finish", "done"}
        /\ generation = LastDelivered.generation
        /\ pc = "done" => Result.schedule = bestChromosome /\ Len(Result.generations) = generation + 1

----------------------------------------------------------------------------
(* Two runs, one after the other, with the same configuration and snapshot  *)

\* after a run has returned: a new GeneticAlgorithm with the same config,
\* initialize with the same data
StartAgain ==
    /\ pc = "done"
    /\ firstResult = <<>>
    /\ firstResult' = <<Result>>
    /\ generation' = 0
    /\ heap' = <<>>
    /\ population' = <<>>
    /\ newPopulation' = <<>>
    /\ bestChromosome' = <<>>
    /\ generationHistory' = <<>>
    /\ progressLog' = <<>>
    /\ pc' = "init"
    /\ UNCHANGED <<snapshotVars, config, sinkInFlight, store, cancelRequested, auditVars>>

\* the configuration carries a seed, which the constructor does not read
InitRerun ==
    Initialized(TwoSlotSnapshot,
                [populationSize |-> PopulationSize, maxGenerations |-> 1,
                 mutationRate |-> 0, crossoverRate |-> 0, elitismCount |-> 1, tournamentSize |-> 2, seed |-> 42])

NextRerun == NextRun \/ StartAgain

SpecRerun == InitRerun /\ [][NextRerun]_vars

\* C15: two runs of the driver given the same seed, the same configuration and
\* the same input snapshot return identical results (best chromosome genes,
\* fitness, violation counts and per-generation history).
C15_SameSeedSameResult ==
    (pc = "done" /\ firstResult # <<>>) => Result = firstResult[1]

----------------------------------------------------------------------------
(* Further properties of the genes and of the inputs of a run *)

\* C16: for every gene in any chromosome at any time (after construction,
\* crossover or mutation), the gene's consecutive-slot count is >= 1.
C16_ConsecutiveSlotsPositive ==
    /\ \A r \in DOMAIN heap : heap[r].consecutiveSlots >= 1
    /\ bestChromosome # <<>> => \A j \in DOMAIN bestChromosome[1].genes : bestChromosome[1].genes[j].consecutiveSlots >= 1

\* a bred generation holding a two-slot lab gene next to a one-slot theory gene
C16_BredLabAndTheoryGenes ==
    /\ generation >= 1
    /\ \E i \in DOMAIN population :
          /\ Len(population[i].genes) = 2
          /\ heap[population[i].genes[1]].sessionType = "theory"
          /\ heap[population[i].genes[1]].consecutiveSlots = 1
          /\ heap[population[i].genes[2]].sessionType = "lab"
          /\ heap[population[i].genes[2]].consecutiveSlots = 2

\* C17: a run on a snapshot whose courses list is empty is rejected with an
\* input-infeasible error before the initial population is built; it never
\* returns a best chromosome or reports a successful termination.
C17_EmptyCoursesRejected ==
    courses = <<>> => /\ population = <<>>
                      /\ bestChromosome = <<>>
                      /\ pc \in {"init", "threw"}

\* C18: a driver configured with population-size <= 0 raises a configuration
\* error to the caller instead of running a search with some other population
\* size.
C18_NonPositivePopulationSizeRaises ==
    config.populationSize <= 0 => /\ population = <<>>
                                  /\ generationHistory = <<>>
                                  /\ pc \in {"init", "evaluate", "threw"}

----------------------------------------------------------------------------
(* The trivial feasible scenario *)

\* CS101 with two one-hour theory sessions for section A of 30; F1 qualified,
\* free from 9 to 17, no workload bounds given; classroom R1 of 40; slots 1..5
\* of Monday and of Tuesday, the first at 9
TrivialSnapshot ==
    Snapshot(<< Course("CS101", 2, 1, 0, 1, <<Section("A", 30)>>) >>,
             << [Faculty("F1", {"CS101"}, TRUE, 0) EXCEPT !.availability = [monday |-> <<Window(9, 17)>>, tuesday |-> <<Window(9, 17)>>]] >>,
             << Room("R1", "classroom", 40, TRUE) >>,
             [n \in 1..10 |-> IF n <= 5 THEN TimeSlot("Monday", n, TRUE) ELSE TimeSlot("Tuesday", n - 5, TRUE)])

InitTrivial ==
    Initialized(TrivialSnapshot,
                [populationSize |-> 1, maxGenerations |-> 1,
                 mutationRate |-> 0, crossoverRate |-> 0, elitismCount |-> -1, tournamentSize |-> 1])

SpecTrivial == InitTrivial /\ [][NextRun]_vars

\* C19: on the trivial feasible snapshot the run returns a best chromosome of
\* fitness 1000 whose two genes are CS101/A/F1/R1 on distinct (day, slot) pairs.
C19_TrivialRunReachesFullFitness ==
    pc = "done" =>
        LET best == Result.schedule[1]
        IN  /\ best.fitness = 1000
            /\ Len(best.genes) = 2
            /\ \A j \in 1..2 : /\ best.genes[j].courseId = "CS101" /\ best.genes[j].section = "A"
                               /\ best.genes[j].facultyId = "F1" /\ best.genes[j].roomId = "R1"
            /\ <<best.genes[1].timeSlot.day, best.genes[1].timeSlot.slotNumber>>
                  # <<best.genes[2].timeSlot.day, best.genes[2].timeSlot.slotNumber>>

----------------------------------------------------------------------------
(* The validator's capacity check *)

CapacityViolationsReported ==
    LET reported == violations.hard \o violations.soft
    IN  SumSeq([i \in DOMAIN reported |->
                   IF reported[i].category = "room_allocation" /\ includes(reported[i].constraint, StrCapacity)
                   THEN reported[i].count ELSE 0])

\* entries whose room is smaller than the strength of the entry's section
EntriesOverCapacity ==
    Cardinality({ i \in DOMAIN entries :
        \E room \in Lookup(rooms, entries[i].room), c \in Lookup(courses, entries[i].course) :
        \E s \in DOMAIN c.sections :
            c.sections[s].sectionName = entries[i].section /\ room.capacity < c.sections[s].strength })

\* C20: for a room-allocation constraint whose name mentions "Capacity", the
\* validator reports a violation for a schedule entry exactly when the room's
\* capacity is less than the strength of the entry's section as resolved from
\* the course/section data; an entry whose room holds its section is never
\* reported.
C20_CapacityUsesSectionStrength ==
    pc = "audited" => CapacityViolationsReported = EntriesOverCapacity

----------------------------------------------------------------------------
(* Elective grouping: the audit of chromosomes over courses carrying an     *)
(* elective flag and an elective-group key                                  *)

ElectiveCourse(id, isElective, electiveGroup) ==
    [Course(id, 1, 1, 0, 1, <<Section("A", 30)>>) EXCEPT !.isElective = isElective, !.electiveGroup = electiveGroup]

ElectiveGeneUniverse ==
    { Gene(c, "A", "theory", s, "F1", "R1", 1, 1) : c \in {"CS301", "CS302", "CS303"}, s \in Range(EvalSnapshot.timeSlots) }

InitElective ==
    /\ \E e1 \in BOOLEAN, e2 \in BOOLEAN, g1 \in {"", "G1", "G2"}, g2 \in {"", "G1", "G2"} :
           courses = << ElectiveCourse("CS301", e1, g1), ElectiveCourse("CS302", e2, g2), ElectiveCourse("CS303", TRUE, "G1") >>
    /\ faculty = EvalSnapshot.faculty
    /\ rooms = EvalSnapshot.rooms
    /\ timeSlots = EvalSnapshot.timeSlots
    /\ InitIdle
    /\ pc = "input"
    /\ evalGenes \in SeqsUpTo(ElectiveGeneUniverse, MaxEvalGenes)
    /\ evaluation = <<>>
    /\ entries = <<>>
    /\ conflicts = <<>>
    /\ violations = [hard |-> <<>>, soft |-> <<>>]

SpecElective == InitElective /\ [][NextAudit]_vars

\* the count validateSchedule reported for the constraints of one category
ReportedCount(category) ==
    SumSeq([i \in DOMAIN violations.hard |->
                IF violations.hard[i].category = category THEN violations.hard[i].count ELSE 0])

\* the buckets of the entries keyed by (the course's elective-group key, day,
\* slot), courses with a null key left out, that hold two or more entries
KeyedBuckets ==
    LET keyed == { i \in DOMAIN entries : \E c \in Lookup(courses, entries[i].course) : c.electiveGroup # "" }
        keyOf(i) == <<(CHOOSE c \in Lookup(courses, entries[i].course) : TRUE).electiveGroup, entries[i].day, entries[i].timeSlot.slotNumber>>
    IN  { b \in { keyOf(i) : i \in keyed } : Cardinality({ i \in keyed : keyOf(i) = b }) >= 2 }

\* C21: the validator's elective-grouping check reports one violation for
\* exactly the (elective-group key, day, slot) buckets holding two or more
\* entries, and never groups entries of courses whose key is null
C21_ElectiveBucketsReported ==
    pc = "audited" =>
        /\ ReportedCount("elective_grouping") = Cardinality(KeyedBuckets)
        /\ { <<v.electiveGroup, v.timeSlot[1], v.timeSlot[2]>> : v \in ElectiveViolations(entries, courses) } = KeyedBuckets

----------------------------------------------------------------------------
(* Room suitability: construction over one course and one room whose        *)
(* requirements and facilities are drawn                                    *)

\* a course with one theory and one lab session a week for a section of 30
EquippedCourse(needsProjector, needsComputers, specificLabType) ==
    [Course("CS101", 1, 1, 1, 1, <<Section("A", 30)>>) EXCEPT !.specificLabType = specificLabType]
    @@ [roomRequirements |-> [theory |-> [needsProjector |-> needsProjector, needsComputers |-> needsComputers]]]

EquippedRoom(type, labType, capacity, isActive, hasProjector, hasComputers) ==
    [Room("R1", type, capacity, isActive) EXCEPT !.labType = labType]
    @@ [facilities |-> [hasProjector |-> hasProjector, hasComputers |-> hasComputers]]

InitSuitable ==
    \E np \in BOOLEAN, nc \in BOOLEAN, lt \in {"", "general", "General", "Computer"} :
    \E type \in {"classroom", "lab", "seminar_hall", "auditorium"}, rl \in {"", "general", "computer"}, cap \in {20, 40} :
    \E active \in BOOLEAN, hp \in BOOLEAN, hc \in BOOLEAN :
        Initialized(Snapshot(<<EquippedCourse(np, nc, lt)>>,
                             <<Faculty("F1", {"CS101"}, TRUE, 1)>>,
                             <<EquippedRoom(type, rl, cap, active, hp, hc)>>,
                             <<TimeSlot("Monday", 1, TRUE)>>),
                    [populationSize |-> 1, maxGenerations |-> 1,
                     mutationRate |-> 0, crossoverRate |-> 0, elitismCount |-> 1, tournamentSize |-> 1])

SpecSuitable == InitSuitable /\ [][NextConstruct]_vars

\* the room-suitable predicate as specified
SuitableAsSpecified(room, course, sessionType, section) ==
    /\ room.isActive
    /\ room.capacity >= section.strength
    /\ IF sessionType = "lab"
       THEN /\ room.type = "lab"
            /\ (course.specificLabType # "" /\ ToLowerCase(course.specificLabType) # "general"
                    => room.labType = ToLowerCase(course.specificLabType))
       ELSE /\ room.type \in {"classroom", "seminar_hall"}
            /\ (course.roomRequirements.theory.needsProjector => room.facilities.hasProjector)
            /\ (course.roomRequirements.theory.needsComputers => room.facilities.hasComputers)

\* C22: the room-suitable predicate of construction and room mutation accepts
\* a room for (course, session type, section) exactly when the room is
\* active, holds the section, and is a lab of the named subtype for a lab
\* session, or a classroom or seminar hall with the projector and computers
\* the course needs for a theory session; so every room a gene was built
\* with is such a room
C22_RoomSuitableAsSpecified ==
    population # <<>> =>
    /\ \A c \in DOMAIN courses, r \in DOMAIN rooms, t \in {"theory", "lab"} : \A s \in DOMAIN courses[c].sections :
           isRoomSuitable(rooms[r], courses[c], t, courses[c].sections[s])
               <=> SuitableAsSpecified(rooms[r], courses[c], t, courses[c].sections[s])
    /\ \A i \in DOMAIN population : \A j \in DOMAIN population[i].genes :
           LET gene == heap[population[i].genes[j]]
           IN  \E r \in Lookup(rooms, gene.roomId), c \in Lookup(courses, gene.courseId) :
                   SuitableAsSpecified(r, c, gene.sessionType, c.sections[1])

----------------------------------------------------------------------------
(* Properties of evolve and of the genetic operators *)

\* the elite of evolve's sort: the genes of the elitismCount fittest
\* chromosomes of the population, fittest first
EliteGenes(n) == [i \in 1..n |-> Deref(heap, SortByFitness(population)[i])]

\* C23: every evolve step replaces the population by exactly populationSize
\* chromosomes whose first elitismCount members are gene-for-gene copies of
\* the elitismCount fittest chromosomes of the previous population, for every
\* configuration the constructor accepts (elitismCount above populationSize
\* included)
C23_EvolveKeepsSizeAndElite ==
    [][ /\ pc = "evolve" =>
              /\ pc' = "offspring"
              /\ \A i \in 1..elitismCount :
                     /\ i \in DOMAIN newPopulation'
                     /\ i \in DOMAIN population
                     /\ Deref(heap', newPopulation'[i]) = EliteGenes(i)[i]
        /\ pc = "offspring" /\ pc' # "offspring" =>
              /\ Len(population') = populationSize
              /\ \A i \in 1..elitismCount : Deref(heap', population'[i]) = Deref(heap, newPopulation[i])
      ]_vars

\* one course, one room, two slots, and a teacher who is not qualified for
\* the course: every chromosome is built without genes
NobodyQualifiedSnapshot ==
    Snapshot(<< Course("CS101", 2, 1, 0, 1, <<Section("A", 30)>>) >>,
             << Faculty("F1", {}, TRUE, 1) >>,
             << Room("R1", "classroom", 40, TRUE) >>,
             << TimeSlot("Monday", 1, TRUE), TimeSlot("Monday", 2, TRUE) >>)

\* runs with one elite and one offspring a generation, on chromosomes of two
\* genes and on chromosomes without genes
InitCrossover ==
    \E data \in {TwoSlotSnapshot, NobodyQualifiedSnapshot} :
        Initialized(data, [populationSize |-> PopulationSize, maxGenerations |-> MaxGenerations,
                           mutationRate |-> 0, crossoverRate |-> 0, elitismCount |-> 1, tournamentSize |-> 2])

SpecCrossover == InitCrossover /\ [][NextRun]_vars

\* an evolve step that pushes one offspring, and the offspring pushed
OffspringPushed == pc = "offspring" /\ Len(newPopulation') = Len(newPopulation) + 1

\* the offspring is the copy of a parent (the branch without crossover): its
\* gene objects are new ones, or it is a parent without genes as evaluated
IsClone(child) ==
    IF child.genes = <<>> THEN child \in Range(population)
    ELSE \A j \in DOMAIN child.genes : child.genes[j] > Len(heap)

\* child is parent1's genes at positions [0, c) followed by parent2's genes at
\* positions [c, end), with the cached scores reset
CutAt(child, parent1, parent2, c) ==
    /\ Len(child.genes) = c + Max(Len(parent2.genes) - c, 0)
    /\ \A k \in DOMAIN child.genes :
           child.genes[k] = IF k <= c THEN parent1.genes[k] ELSE parent2.genes[k]
    /\ (Len(parent1.genes) = Len(parent2.genes) => Len(child.genes) = Len(parent1.genes))
    /\ child.fitness = 0 /\ child.hardViolations = 0 /\ child.softViolations = 0

\* C24 as stated: the offspring of a crossover is parent1's genes before a
\* cut c and parent2's genes from c on, for a cut c in 0 .. len(parent1)-1,
\* with the parents' length when they agree and cached scores 0
C24_CrossoverCutsWithinParent ==
    [][ OffspringPushed =>
            LET child == newPopulation'[Len(newPopulation')]
            IN  \/ IsClone(child)
                \/ \E p1 \in DOMAIN population, p2 \in DOMAIN population :
                   \E c \in 0..(Len(population[p1].genes) - 1) :
                       CutAt(child, population[p1], population[p2], c)
      ]_vars

\* C24 (amended): as C24, with the cut 0 when parent1 has no genes
C24_CrossoverCutsWithinParentOrAtZero ==
    [][ OffspringPushed =>
            LET child == newPopulation'[Len(newPopulation')]
            IN  \/ IsClone(child)
                \/ \E p1 \in DOMAIN population, p2 \in DOMAIN population :
                   \E c \in 0..Max(Len(population[p1].genes) - 1, 0) :
                       CutAt(child, population[p1], population[p2], c)
      ]_vars

\* an offspring with the first gene of one parent and the second gene of the
\* other has been pushed
C24_OffspringOfTwoParents ==
    /\ pc = "offspring"
    /\ Len(population) = 2
    /\ \E k \in DOMAIN newPopulation :
           /\ Len(newPopulation[k].genes) = 2
           /\ Len(population[1].genes) = 2
           /\ newPopulation[k].genes = <<population[1].genes[1], population[2].genes[2]>>
           /\ population[1].genes[2] # population[2].genes[2]
           /\ newPopulation[k].fitness = 0

\* the change of one gene is a change of its time slot only, of its faculty
\* (id and name) only, or of its room (id and number) only
OneAspectChanged(after, before) ==
    \/ after = before
    \/ after = [before EXCEPT !.timeSlot = after.timeSlot]
    \/ after = [before EXCEPT !.facultyId = after.facultyId, !.facultyName = after.facultyName]
    \/ after = [before EXCEPT !.roomId = after.roomId, !.roomNumber = after.roomNumber]

\* the genes after are the genes before with at most one gene changed, in
\* one aspect
MutatedFrom(after, before) ==
    /\ Len(after) = Len(before)
    /\ Cardinality({ j \in DOMAIN after : after[j] # before[j] }) <= 1
    /\ \A j \in DOMAIN after : OneAspectChanged(after[j], before[j])

\* C25: one call of mutate changes at most one gene of the chromosome, and
\* in it only the time slot, or the faculty (id and name), or the room (id
\* and number); the number of genes and every other gene and field stay, and
\* a chromosome without genes is left as it is.  The chromosome mutate was
\* given is the crossover of two parents or the copy of one.
C25_MutateChangesOneAspectOfOneGene ==
    [][ OffspringPushed =>
            LET child == newPopulation'[Len(newPopulation')]
            IN  IF IsClone(child)
                THEN \E p \in DOMAIN population : MutatedFrom(Deref(heap', child), Deref(heap, population[p]))
                ELSE MutatedFrom(Deref(heap', child), Deref(heap, child))
      ]_vars

\* a copied offspring that differs from every chromosome of the population,
\* and from one of them in a single gene, has been pushed
C25_MutatedCopyPushed ==
    /\ pc = "offspring"
    /\ \E k \in DOMAIN newPopulation :
           /\ newPopulation[k].genes # <<>>
           /\ \A j \in DOMAIN newPopulation[k].genes : newPopulation[k].genes[j] \notin RefsOf(population)
           /\ \A q \in DOMAIN population : Deref(heap, newPopulation[k]) # Deref(heap, population[q])
           /\ \E p \in DOMAIN population :
                  /\ Len(population[p].genes) = Len(newPopulation[k].genes)
                  /\ Cardinality({ j \in DOMAIN population[p].genes :
                                     heap[newPopulation[k].genes[j]] # heap[population[p].genes[j]] }) = 1

----------------------------------------------------------------------------
(* Properties of the evaluator's counts *)

\* the distinct (entity, day, slot number) keys among the genes
BookingKeys(genes, entity) ==
    { <<genes[i][entity], genes[i].timeSlot.day, genes[i].timeSlot.slotNumber>> : i \in DOMAIN genes }

\* C26: for faculty, room and section alike, the evaluator's double-booking
\* count of a chromosome is the number of its genes minus the number of
\* distinct (entity, day, slot number) keys among them: n genes on one key
\* count n - 1
C26_DoubleBookingCountsGenesBeyondFirst ==
    Scored =>
        /\ DetailCount(evaluation[1].hardConstraints, "faculty_double_booking")
               = Len(evalGenes) - Cardinality(BookingKeys(evalGenes, "facultyId"))
        /\ DetailCount(evaluation[1].hardConstraints, "room_double_booking")
               = Len(evalGenes) - Cardinality(BookingKeys(evalGenes, "roomId"))
        /\ DetailCount(evaluation[1].hardConstraints, "section_conflict")
               = Len(evalGenes) - Cardinality(BookingKeys(evalGenes, "section"))

\* three genes of one faculty member, room and section on one slot have been
\* scored: two double bookings of each
C26_ThreeGenesOnOneKey ==
    /\ Scored
    /\ Len(evalGenes) = 3
    /\ Cardinality(BookingKeys(evalGenes, "facultyId")) = 1
    /\ Cardinality(BookingKeys(evalGenes, "roomId")) = 1
    /\ DetailCount(evaluation[1].hardConstraints, "faculty_double_booking") = 2
    /\ DetailCount(evaluation[1].hardConstraints, "room_double_booking") = 2
    /\ DetailCount(evaluation[1].hardConstraints, "section_conflict") = 2

----------------------------------------------------------------------------
(* The evaluation of one day's teaching: chromosomes of up to MaxDayGenes    *)
(* genes over the first DaySlots slots of Monday                            *)

MaxDayGenes == 5
DaySlots == 5

\* genes of F1 for section A on Monday, and one gene of F2 for section B in
\* the middle of the day
DayGeneUniverse ==
    { Gene("CS101", "A", "theory", TimeSlot("Monday", n, TRUE), "F1", "R1", 1, 1) : n \in 1..DaySlots }
    \cup { Gene("CS101", "B", "theory", TimeSlot("Monday", 3, TRUE), "F2", "R1", 1, 1) }

InitEvaluate ==
    /\ courses = EvalSnapshot.courses
    /\ faculty = EvalSnapshot.faculty
    /\ rooms = EvalSnapshot.rooms
    /\ timeSlots = [n \in 1..DaySlots |-> TimeSlot("Monday", n, TRUE)]
    /\ InitIdle
    /\ pc = "input"
    /\ evalGenes \in SeqsUpTo(DayGeneUniverse, MaxDayGenes)
    /\ evaluation = <<>>
    /\ entries = <<>>
    /\ conflicts = <<>>
    /\ violations = [hard |-> <<>>, soft |-> <<>>]

SpecEvaluate == InitEvaluate /\ [][Calculate]_vars

\* the slot numbers a (faculty, day) group occupies
OccupiedSlots(genes, key) ==
    { genes[i].timeSlot.slotNumber : i \in { i \in DOMAIN genes : FacultyDayKey(genes[i]) = key } }

\* the slots beyond the third of their maximal run of consecutive occupied
\* slot numbers: the sum over the runs of max(0, run length - 3)
BeyondThird(occupied) ==
    Cardinality({ n \in occupied : \A d \in 1..MaxConsecutive : (n - d) \in occupied })

\* C27: for every (faculty, day) group of genes, groups in which a slot
\* number occurs more than once included, the consecutive-hours count is the
\* sum over the maximal runs of consecutive occupied slot numbers of
\* max(0, run length - 3)
C27_ConsecutiveHoursCountRunsOfOccupiedSlots ==
    Scored =>
        LET keys == { FacultyDayKey(evalGenes[i]) : i \in DOMAIN evalGenes }
        IN  DetailCount(evaluation[1].softConstraints, "excessive_consecutive_hours")
               = SumFn([k \in keys |-> BeyondThird(OccupiedSlots(evalGenes, k))], keys)

\* C28: for every chromosome the soft-violation count calculate returns is
\* >= 0, and so are the student-gap and faculty-gap totals it is built from,
\* also when several genes of one section or faculty member share a day and
\* slot
C28_SoftCountsNotNegative ==
    Scored =>
        /\ evaluation[1].softViolations >= 0
        /\ calculateStudentGaps(evalGenes) >= 0
        /\ calculateFacultyGaps(evalGenes) >= 0

----------------------------------------------------------------------------
(* Properties of the configuration *)

\* the offspring pushed carries the genes it was bred with: those of a parent
\* for a copy, those of its own gene objects before the step for a crossover
Unmutated(child) ==
    IF IsClone(child)
    THEN \E p \in DOMAIN population : Deref(heap', child) = Deref(heap, population[p])
    ELSE Deref(heap', child) = Deref(heap, child)

\* C29: a configuration value the caller supplies is used as given, the
\* default only standing in for an absent one: with mutationRate 0 no
\* offspring is mutated, and with crossoverRate 0 every offspring that is not
\* an elite is a clone of its first parent
C29_ZeroRatesAreUsed ==
    [][ OffspringPushed =>
            LET child == newPopulation'[Len(newPopulation')]
            IN  /\ (config.mutationRate = 0 => Unmutated(child))
                /\ (config.crossoverRate = 0 =>
                       \E p \in DOMAIN population :
                           /\ IsClone(child)
                           /\ child.fitness = population[p].fitness
                           /\ Len(child.genes) = Len(population[p].genes))
      ]_vars

----------------------------------------------------------------------------
(* generateSchedule: one request, from the save of the draft schedule to    *)
(* the response                                                             *)

\* the state after the first schedule.save() and ga.initialize(data): the
\* stored schedule is 'generating', and the engine has the four parameters
\* generateSchedule passes (elitismCount and tournamentSize are absent).  The
\* population is smaller than the default elitismCount, or larger by one.
InitRequest ==
    /\ courses = NarrowWindowSnapshot.courses
    /\ faculty = NarrowWindowSnapshot.faculty
    /\ rooms = NarrowWindowSnapshot.rooms
    /\ timeSlots = NarrowWindowSnapshot.timeSlots
    /\ \E size \in {PopulationSize, DefaultElitismCount + 1} :
           config = [populationSize |-> size, maxGenerations |-> 1,
                     mutationRate |-> 0, crossoverRate |-> 0, elitismCount |-> 0, tournamentSize |-> 0]
    /\ generation = 0
    /\ heap = <<>>
    /\ population = <<>>
    /\ newPopulation = <<>>
    /\ bestChromosome = <<>>
    /\ generationHistory = <<>>
    /\ progressLog = <<>>
    /\ sinkInFlight = <<>>
    /\ store = <<[status |-> "generating", generationNumber |-> 0, fitnessScore |-> 0]>>
    /\ cancelRequested = FALSE
    /\ firstResult = <<>>
    /\ pc = "init"
    /\ evalGenes = <<>>
    /\ evaluation = <<>>
    /\ entries = <<>>
    /\ conflicts = <<>>
    /\ violations = [hard |-> <<>>, soft |-> <<>>]

\* the schedule.save() of the progress callback rejects: the awaited callback
\* rejects and optimize throws to generateSchedule
ProgressSaveFails ==
    /\ pc = "awaiting"
    /\ sinkInFlight # <<>>
    /\ sinkInFlight' = Tail(sinkInFlight)
    /\ pc' = "threw"
    /\ UNCHANGED <<snapshotVars, config, generation, heap, population, newPopulation, bestChromosome, generationHistory,
                   progressLog, store, cancelRequested, firstResult, auditVars>>

\* after optimize returned: the entries, status 'completed', the metrics and
\* the conflicts are set, the schedule is saved and 201 is answered
CompleteSchedule ==
    /\ pc = "done"
    /\ entries' = ToEntries(bestChromosome[1].genes)
    /\ conflicts' = detectConflicts(ToEntries(bestChromosome[1].genes))
    /\ store' = <<[store[1] EXCEPT !.status = "completed",
                                   !.generationNumber = Len(generationHistory),
                                   !.fitnessScore = bestChromosome[1].fitness]>>
    /\ pc' = "answered201"
    /\ UNCHANGED <<snapshotVars, config, generation, heap, population, newPopulation, bestChromosome, generationHistory,
                   progressLog, sinkInFlight, cancelRequested, firstResult, evalGenes, evaluation, violations>>

\* the last schedule.save() rejects: nothing is stored
FinalSaveFails ==
    /\ pc = "done"
    /\ pc' = "threw"
    /\ UNCHANGED <<snapshotVars, gaVars, auditVars>>

\* the catch block: the error is logged and 500 is answered
AnswerError ==
    /\ pc = "threw"
    /\ pc' = "answered500"
    /\ UNCHANGED <<snapshotVars, gaVars, auditVars>>

NextRequest == NextRun \/ ProgressSaveFails \/ CompleteSchedule \/ FinalSaveFails \/ AnswerError

SpecRequest == InitRequest /\ [][NextRequest]_vars

\* C30: a schedule that generateSchedule saved with status 'generating' has
\* left that status when its request is answered, on every path of the
\* request: also when the optimization, a progress save or the final save
\* throws
C30_AnsweredRequestLeavesGenerating ==
    pc \in {"answered201", "answered500"} => store[1].status # "generating"

====
